---- MODULE Spec2Model ----
(***************************************************************************)
(* A model of the alias handling, node creation and public API of the      *)
(* yaml library (src/nodes/Alias.ts, the public-api part of               *)
(* src/compose/resolve-flow-collection.ts, and the createNode behaviour    *)
(* exercised by tests/doc/createNode.js).                                   *)
(*                                                                         *)
(* A document is held as the sequence of its nodes in traversal order      *)
(* (depth first, a node before its children, a pair's key before its       *)
(* value).  Node k of the sequence is a record                             *)
(*   [kind, anchor, source, parent]                                        *)
(* where parent is the index of the enclosing node (0 for the contents     *)
(* root).  A Pair is held as a node of kind "pair": it has no anchor, is   *)
(* not handed to a visitor's Node callback, and has at most two children   *)
(* (its key, then its value).                                              *)
(***************************************************************************)
EXTENDS Integers, Sequences, FiniteSets, TLC

VARIABLES
    doc,        \* the document's nodes, in traversal order
    mac,        \* ctx.maxAliasCount of the running conversion
    pos,        \* index of the next node that toJS converts
    anchors,    \* ctx.anchors: node index -> [count, aliasCount, res]
    status,     \* "build", "tojs", "done", or the error a conversion threw
    last,       \* the last Alias.toJSON call: [node, source, out, before]
    ts,         \* an Alias.toString call: its arguments and its result
    cn,         \* a createNode call: the host value, the context, the result
    sf,         \* a stringify call: its arguments and its result
    pr,         \* a parse call: the parsed document's lists, and the result
    pd,         \* a parseDocument or parseAllDocuments call in progress
    sq,         \* a YAMLSeq and the last operation on it
    mp,         \* a document's mapping and its sortMapEntries option
    sc,         \* a stringifyCollection call: the collection and the result
    fc          \* a resolveFlowCollection call over a token sequence

vars == <<doc, mac, pos, anchors, status, last, ts, cn, sf, pr, pd, sq, mp, sc, fc>>

----------------------------------------------------------------------------
(* Bounds *)

MaxNodes == 4

Labels == {"a", "b"}
NoLabel == ""
MaxAliasCounts == {-1, 0, 2}

NoCall == [node |-> 0, source |-> 0, out |-> "none", before |-> <<>>]

----------------------------------------------------------------------------
(* Document structure *)

Max2(x, y) == IF x > y THEN x ELSE y

Children(d, i) == {j \in 1..Len(d) : d[j].parent = i}

RECURSIVE AncestorsOrSelf(_, _)
AncestorsOrSelf(d, i) ==
    IF i = 0 THEN {} ELSE {i} \cup AncestorsOrSelf(d, d[i].parent)

\* isNode(node): what visit hands to the Node callback (not a Pair).
IsNode(n) == n.kind \in {"scalar", "seq", "map", "alias"}

IsCollection(n) == n.kind \in {"seq", "map"}

\* The k-th child of pair p (1: key, 2: value), 0 when it is null.
PairPart(d, p, k) ==
    LET cs == Children(d, p)
    IN  IF Cardinality(cs) < k THEN 0
        ELSE CHOOSE j \in cs : Cardinality({c \in cs : c < j}) = k - 1

----------------------------------------------------------------------------
(* Alias.resolve *)

RECURSIVE VisitNoBreak(_, _, _, _)
VisitNoBreak(d, i, j, found) ==
    IF j > Len(d) THEN found
    ELSE IF IsNode(d[j]) /\ j # i /\ d[j].anchor = d[i].source
         THEN VisitNoBreak(d, i, j + 1, j)
         ELSE VisitNoBreak(d, i, j + 1, found)

\* Alias.resolve with a visitor that never stops at the alias itself.
ResolveNoBreak(d, i) == VisitNoBreak(d, i, 1, 0)

RECURSIVE VisitFirst(_, _, _, _)
VisitFirst(d, i, j, found) ==
    IF j > Len(d) THEN found
    ELSE IF j = i THEN found
    ELSE IF IsNode(d[j]) /\ d[j].anchor = d[i].source /\ found = 0
         THEN VisitFirst(d, i, j + 1, j)
         ELSE VisitFirst(d, i, j + 1, found)

\* Alias.resolve that keeps the first match instead of the last one.
ResolveFirst(d, i) == VisitFirst(d, i, 1, 0)

\* The visitor of Alias.resolve, applied to nodes j, j+1, ... in traversal
\* order: BREAK at the alias itself, otherwise remember a matching anchor.
RECURSIVE ResolveVisit(_, _, _, _)
ResolveVisit(d, i, j, found) ==
    IF j > Len(d) THEN found
    ELSE IF ~IsNode(d[j]) THEN ResolveVisit(d, i, j + 1, found)
    ELSE IF j = i THEN found
    ELSE IF d[j].anchor = d[i].source THEN ResolveVisit(d, i, j + 1, j)
    ELSE ResolveVisit(d, i, j + 1, found)

\* Alias.resolve(doc) of the alias at index i: the node found, 0 for undefined.
Resolve(d, i) == ResolveVisit(d, i, 1, 0)

----------------------------------------------------------------------------
(* getAliasCount and Alias.toJSON *)

\* The count a freshly registered anchor starts with (toJS registers the
\* node with count 1 and aliasCount 0 before any alias refers to it).
InitialCount == 1

AnchorData == [count |-> InitialCount, aliasCount |-> 0, res |-> TRUE]

RECURSIVE SetMax(_)
SetMax(S) ==
    IF S = {} THEN 0
    ELSE LET x == CHOOSE y \in S : TRUE
         IN  Max2(x, SetMax(S \ {x}))

RECURSIVE getAliasCount(_, _, _)
getAliasCount(d, i, anc) ==
    IF i = 0 THEN 1
    ELSE IF d[i].kind = "alias" THEN
        LET source == Resolve(d, i)
        IN  IF source # 0 /\ source \in DOMAIN anc
            THEN anc[source].count * anc[source].aliasCount
            ELSE 0
    ELSE IF IsCollection(d[i]) THEN
        SetMax({getAliasCount(d, c, anc) : c \in Children(d, i)})
    ELSE IF d[i].kind = "pair" THEN
        Max2(getAliasCount(d, PairPart(d, i, 1), anc),
             getAliasCount(d, PairPart(d, i, 2), anc))
    ELSE 1

\* Alias.toJSON whose guard compares with >= instead of >.
AliasToJSONGe(d, i, anc, m) ==
    LET source == Resolve(d, i)
    IN  IF source = 0 THEN [out |-> "unresolved", anc |-> anc]
        ELSE IF source \notin DOMAIN anc \/ ~anc[source].res
        THEN [out |-> "notresolved", anc |-> anc]
        ELSE IF m >= 0 THEN
            LET a1 == [anc EXCEPT ![source].count = @ + 1]
                a2 == IF a1[source].aliasCount = 0
                      THEN [a1 EXCEPT ![source].aliasCount =
                                          getAliasCount(d, source, a1)]
                      ELSE a1
            IN  IF a2[source].count * a2[source].aliasCount >= m
                THEN [out |-> "excessive", anc |-> a2]
                ELSE [out |-> "value", anc |-> a2]
        ELSE [out |-> "value", anc |-> anc]

\* Alias.toJSON whose guard treats a limit of 0 as "no limit".
AliasToJSONZeroOff(d, i, anc, m) ==
    LET source == Resolve(d, i)
    IN  IF source = 0 THEN [out |-> "unresolved", anc |-> anc]
        ELSE IF source \notin DOMAIN anc \/ ~anc[source].res
        THEN [out |-> "notresolved", anc |-> anc]
        ELSE IF m > 0 THEN
            LET a1 == [anc EXCEPT ![source].count = @ + 1]
                a2 == IF a1[source].aliasCount = 0
                      THEN [a1 EXCEPT ![source].aliasCount =
                                          getAliasCount(d, source, a1)]
                      ELSE a1
            IN  IF a2[source].count * a2[source].aliasCount > m
                THEN [out |-> "excessive", anc |-> a2]
                ELSE [out |-> "value", anc |-> a2]
        ELSE [out |-> "value", anc |-> anc]

\* Alias.toJSON(_arg, ctx) of the alias at index i, with ctx.anchors = anc and
\* ctx.maxAliasCount = m: what it returns or throws, and ctx.anchors after it.
AliasToJSON(d, i, anc, m) ==
    LET source == Resolve(d, i)
    IN  IF source = 0 THEN [out |-> "unresolved", anc |-> anc]
        ELSE IF source \notin DOMAIN anc \/ ~anc[source].res
        THEN [out |-> "notresolved", anc |-> anc]
        ELSE IF m >= 0 THEN
            LET a1 == [anc EXCEPT ![source].count = @ + 1]
                a2 == IF a1[source].aliasCount = 0
                      THEN [a1 EXCEPT ![source].aliasCount =
                                          getAliasCount(d, source, a1)]
                      ELSE a1
            IN  IF a2[source].count * a2[source].aliasCount > m
                THEN [out |-> "excessive", anc |-> a2]
                ELSE [out |-> "value", anc |-> a2]
        ELSE [out |-> "value", anc |-> anc]

----------------------------------------------------------------------------
(* Building a document, and converting it to native values *)

NodeKinds == {"scalar", "seq", "map", "pair", "alias"}

\* A node of kind k with anchor a and source s can be appended below parent p.
CanAppend(d, k, a, s, p) ==
    /\ Len(d) < MaxNodes
    /\ IF k = "alias" THEN a = NoLabel /\ s \in Labels
       ELSE IF k = "pair" THEN a = NoLabel /\ s = NoLabel
       ELSE a \in Labels \cup {NoLabel} /\ s = NoLabel
    /\ IF Len(d) = 0 THEN p = 0 /\ k # "pair"
       ELSE /\ p \in AncestorsOrSelf(d, Len(d))
            /\ CASE d[p].kind = "seq"  -> k # "pair"
                 [] d[p].kind = "map"  -> k = "pair"
                 [] d[p].kind = "pair" -> k # "pair" /\ Cardinality(Children(d, p)) < 2
                 [] OTHER -> FALSE

\* The composer (or a caller editing the tree) adds the next node.
AddNode ==
    /\ status = "build"
    /\ \E k \in NodeKinds, a \in Labels \cup {NoLabel},
          s \in Labels \cup {NoLabel}, p \in 0..Len(doc) :
          /\ CanAppend(doc, k, a, s, p)
          /\ doc' = Append(doc, [kind |-> k, anchor |-> a, source |-> s, parent |-> p])
    /\ UNCHANGED <<mac, pos, anchors, status, last, ts, cn, sf, pr, pd, sq, mp, sc, fc>>

\* Document.toJS({ maxAliasCount }): a fresh context, conversion starts at
\* the contents root.
StartToJS ==
    /\ status = "build"
    /\ \E m \in MaxAliasCounts : mac' = m
    /\ pos' = 1
    /\ anchors' = <<>>
    /\ last' = NoCall
    /\ status' = IF Len(doc) = 0 THEN "done" ELSE "tojs"
    /\ UNCHANGED <<doc, ts, cn, sf, pr, pd, sq, mp, sc, fc>>

Register(anc, i) ==
    [j \in DOMAIN anc \cup {i} |-> IF j = i THEN AnchorData ELSE anc[j]]

\* toJS(node, arg, ctx) of the node at index p: an anchored scalar or
\* collection is registered in ctx.anchors, an alias runs Alias.toJSON.
ToJSStep(d, p, anc, m) ==
    IF d[p].kind = "alias" THEN AliasToJSON(d, p, anc, m)
    ELSE [out |-> "value",
          anc |-> IF d[p].kind # "pair" /\ d[p].anchor # NoLabel
                  THEN Register(anc, p) ELSE anc]

\* Document.toJS as one call: the nodes are converted in traversal order until
\* one throws.  The result is "done" or the error thrown.
RECURSIVE ToJSRun(_, _, _, _)
ToJSRun(d, p, anc, m) ==
    IF p > Len(d) THEN "done"
    ELSE LET r == ToJSStep(d, p, anc, m)
         IN  IF r.out = "value" THEN ToJSRun(d, p + 1, r.anc, m) ELSE r.out

\* One step of a running conversion: toJS of the node at pos.  A throw ends
\* the conversion.
ToJSNode ==
    /\ status = "tojs"
    /\ LET r == ToJSStep(doc, pos, anchors, mac)
       IN  /\ anchors' = r.anc
           /\ last' = IF doc[pos].kind = "alias"
                      THEN [node |-> pos, source |-> Resolve(doc, pos),
                            out |-> r.out, before |-> anchors]
                      ELSE last
           /\ status' = IF r.out # "value" THEN r.out
                        ELSE IF pos = Len(doc) THEN "done" ELSE "tojs"
           /\ pos' = IF r.out = "value" THEN pos + 1 ELSE pos
    /\ UNCHANGED <<doc, mac, ts, cn, sf, pr, pd, sq, mp, sc, fc>>

\* The value of a variable that the specification at hand does not use.
Off == [phase |-> "off"]

Init ==
    /\ doc = <<>>
    /\ mac = 0
    /\ pos = 0
    /\ anchors = <<>>
    /\ status = "build"
    /\ last = NoCall
    /\ ts = Off /\ cn = Off /\ sf = Off /\ pr = Off
    /\ pd = Off /\ sq = Off /\ mp = Off /\ sc = Off /\ fc = Off

Next == AddNode \/ StartToJS \/ ToJSNode

Spec == Init /\ [][Next]_vars

----------------------------------------------------------------------------
(* Properties of Alias.resolve and Alias.toJSON *)

\* The nodes before alias i, in traversal order, that carry its source anchor.
PrecedingAnchored(d, i) ==
    {j \in 1..(i - 1) : IsNode(d[j]) /\ d[j].anchor = d[i].source}

LastPreceding(d, i) ==
    LET S == PrecedingAnchored(d, i)
    IN  IF S = {} THEN 0 ELSE CHOOSE j \in S : \A k \in S : k <= j

\* The Alias.toJSON calls made so far that resolved to node s.
RefsTo(s) ==
    Cardinality({k \in 1..last.node :
                    doc[k].kind = "alias" /\ LastPreceding(doc, k) = s})

\* Node j is a scalar or has a scalar somewhere below it.
ContainsScalar(d, j) ==
    \E c \in 1..Len(d) : d[c].kind = "scalar" /\ j \in AncestorsOrSelf(d, c)

\* C1: for every Alias node of every document, Alias.resolve returns the last
\* node before the alias, in traversal order, whose anchor equals the alias's
\* source (a reused label shadows the earlier node), and undefined (0) when no
\* preceding node carries that anchor, even if a later node does.
C1_ResolveLastPreceding ==
    /\ \A i \in 1..Len(doc) :
          doc[i].kind = "alias" => Resolve(doc, i) = LastPreceding(doc, i)
    /\ last.node # 0 => last.source = LastPreceding(doc, last.node)

\* A conversion resolved an alias to a node that shadows an earlier node with
\* the same anchor, while a later node carries the anchor too.
C1_Witness ==
    /\ last.node # 0 /\ last.source # 0
    /\ Cardinality(PrecedingAnchored(doc, last.node)) >= 2
    /\ \E j \in (last.node + 1)..Len(doc) :
          IsNode(doc[j]) /\ doc[j].anchor = doc[last.node].source

\* C2: Alias.toJSON throws the excessive-alias-count error exactly when
\* maxAliasCount >= 0 and, after this reference has been counted, the resolved
\* anchor's count * aliasCount exceeds maxAliasCount; otherwise it returns the
\* anchor's resolved value.  With a negative maxAliasCount the guard never
\* fires and no anchor's count or aliasCount changes.
C2_AliasCountGuard ==
    /\ (last.node # 0 /\ last.source # 0) =>
          LET s == last.source
          IN  /\ s \in DOMAIN anchors
              /\ mac >= 0 => anchors[s].count = InitialCount + RefsTo(s)
              /\ (last.out = "excessive") <=>
                    (mac >= 0 /\ anchors[s].count * anchors[s].aliasCount > mac)
              /\ last.out # "excessive" => last.out = "value" /\ anchors[s].res
              /\ (status = "excessive") <=> (last.out = "excessive")
    /\ mac < 0 =>
          /\ status # "excessive"
          /\ \A j \in DOMAIN anchors : anchors[j] = AnchorData

\* The second alias to an anchor trips the guard that the first one passed.
C2_Witness ==
    /\ status = "excessive" /\ mac = 2
    /\ anchors[last.source].count = 3
    /\ anchors[last.source].aliasCount = 1

\* All aliases of the document refer to an anchor set on a preceding node.
WellFormedAliases(d) ==
    \A i \in 1..Len(d) : d[i].kind = "alias" => LastPreceding(d, i) # 0

\* C3 as stated: with maxAliasCount = 0 a document whose aliases all refer to
\* a preceding anchor converts without an excessive-alias-count error.
C3_AsStated ==
    (mac = 0 /\ WellFormedAliases(doc)) => status # "excessive"

\* C3, amended: with maxAliasCount = 0 an alias whose anchored target is a
\* scalar, or a collection with a scalar below it, throws the
\* excessive-alias-count error; an alias to an anchored empty collection
\* converts.
C3_ZeroLimit ==
    (mac = 0 /\ last.node # 0 /\ last.source # 0) =>
        /\ ContainsScalar(doc, last.source) => last.out = "excessive"
        /\ (IsCollection(doc[last.source]) /\ Children(doc, last.source) = {})
              => last.out = "value"

\* With maxAliasCount = 0, an alias to an anchored non-empty collection threw.
C3_Witness ==
    /\ mac = 0 /\ status = "excessive"
    /\ IsCollection(doc[last.source])
    /\ ContainsScalar(doc, last.source)

\* C4: Alias.toJSON with a context throws the unresolved-alias ReferenceError
\* whenever no node before the alias carries its source anchor, and then no
\* anchor's count or aliasCount has been modified.
C4_UnresolvedAlias ==
    (last.node # 0 /\ LastPreceding(doc, last.node) = 0) =>
        /\ last.out = "unresolved"
        /\ status = "unresolved"
        /\ anchors = last.before

\* An alias whose anchor is only set on a later node was converted while
\* other anchors were registered.
C4_Witness ==
    /\ status = "unresolved"
    /\ DOMAIN anchors # {}
    /\ \E j \in (last.node + 1)..Len(doc) :
          IsNode(doc[j]) /\ doc[j].anchor = doc[last.node].source

----------------------------------------------------------------------------
(* Alias.toString *)

\* A source label that is not a valid anchor name (it holds a space).
BadLabel == "a b"

SourceLabels == Labels \cup {BadLabel}

AliasOff ==
    /\ doc = <<>> /\ mac = 0 /\ pos = 0 /\ anchors = <<>>
    /\ status = "off" /\ last = NoCall

\* anchorIsValid(anchor): called for its throw only, its result is dropped.
AnchorIsValid(label) == label # BadLabel

\* Alias.toString that checks the alias order whatever verifyAliasOrder says.
AliasToStringAlwaysVerify(c) ==
    LET src == <<"*", c.source>>
    IN  IF c.ctx THEN
            IF ~AnchorIsValid(c.source) THEN [throw |-> "Invalid anchor", str |-> <<>>]
            ELSE IF c.source \notin c.anchors
            THEN [throw |-> "Unresolved alias", str |-> <<>>]
            ELSE IF c.implicitKey THEN [throw |-> "", str |-> src \o <<" ">>]
            ELSE [throw |-> "", str |-> src]
        ELSE [throw |-> "", str |-> src]

\* Alias.toString(ctx) for the call c = [ctx, source, anchors, verify,
\* implicitKey]: ctx says whether a context is passed, anchors is ctx.anchors,
\* verify is ctx.options.verifyAliasOrder.  The text is a sequence of pieces.
AliasToString(c) ==
    LET src == <<"*", c.source>>
    IN  IF c.ctx THEN
            IF ~AnchorIsValid(c.source) THEN [throw |-> "Invalid anchor", str |-> <<>>]
            ELSE IF c.verify /\ c.source \notin c.anchors
            THEN [throw |-> "Unresolved alias", str |-> <<>>]
            ELSE IF c.implicitKey THEN [throw |-> "", str |-> src \o <<" ">>]
            ELSE [throw |-> "", str |-> src]
        ELSE [throw |-> "", str |-> src]

ToStringCalls ==
    [ctx : BOOLEAN, source : SourceLabels, anchors : SUBSET SourceLabels,
     verify : BOOLEAN, implicitKey : BOOLEAN]

InitToString ==
    /\ AliasOff
    /\ \E c \in ToStringCalls : ts = [phase |-> "call", call |-> c]
    /\ cn = Off /\ sf = Off /\ pr = Off
    /\ pd = Off /\ sq = Off /\ mp = Off /\ sc = Off /\ fc = Off

ToStringCall ==
    /\ ts.phase = "call"
    /\ ts' = [phase |-> "returned", call |-> ts.call,
              res |-> AliasToString(ts.call)]
    /\ UNCHANGED <<doc, mac, pos, anchors, status, last, cn, sf, pr, pd, sq, mp, sc, fc>>

NextToString == ToStringCall

SpecToString == InitToString /\ [][NextToString]_vars

\* C5 as stated: with a stringify context, toString throws 'Unresolved alias'
\* exactly when verifyAliasOrder is set and the source is absent from
\* ctx.anchors; with verifyAliasOrder off it emits *source; the text is
\* *source, followed by one space exactly for an implicit key.
C5_AsStated ==
    (ts.phase = "returned" /\ ts.call.ctx) =>
        LET c == ts.call
        IN  /\ (ts.res.throw = "Unresolved alias") <=>
                   (c.verify /\ c.source \notin c.anchors)
            /\ ~c.verify => ts.res.throw = ""
            /\ ts.res.throw = "" =>
                   ts.res.str = IF c.implicitKey THEN <<"*", c.source, " ">>
                                ELSE <<"*", c.source>>

\* C5, amended: the same, for a source that is a valid anchor name; a source
\* that anchorIsValid rejects makes toString throw that error first, in
\* either setting of verifyAliasOrder.
C5_ToStringVerify ==
    (ts.phase = "returned" /\ ts.call.ctx) =>
        LET c == ts.call
        IN  IF c.source = BadLabel THEN ts.res.throw = "Invalid anchor"
            ELSE /\ (ts.res.throw = "Unresolved alias") <=>
                        (c.verify /\ c.source \notin c.anchors)
                 /\ ~c.verify => ts.res.throw = ""
                 /\ ts.res.throw = "" =>
                        ts.res.str = IF c.implicitKey THEN <<"*", c.source, " ">>
                                     ELSE <<"*", c.source>>

\* With verifyAliasOrder off, an alias whose anchor was never emitted is
\* rendered as an implicit key.
C5_Witness ==
    /\ ts.phase = "returned" /\ ts.call.ctx
    /\ ~ts.call.verify /\ ts.call.source \notin ts.call.anchors
    /\ ts.call.source # BadLabel /\ ts.call.implicitKey
    /\ ts.res.str = <<"*", ts.call.source, " ">>

----------------------------------------------------------------------------
(* createNode: from a host value graph to nodes *)

\* The host objects are 1..MaxObjs, and object 1 is the value handed to
\* createNode.  An object is a collection with up to two entries or a Date;
\* an entry is a primitive (written -1: a string, number or boolean), null
\* (written 0), or a reference to an object.
MaxObjs == 2

Objs == 1..MaxObjs
Prims == {-1, 0}
HostValues == Prims \cup Objs
KidLists ==
    {<<>>} \cup {<<v>> : v \in HostValues}
           \cup {<<v, w>> : v \in HostValues, w \in HostValues}
HostObjects ==
    [kind : {"coll"}, kids : KidLists] \cup [kind : {"date"}, kids : {<<>>}]

RootObj == 1

NewCreateState ==
    [nodes |-> <<>>, prev |-> [o \in Objs |-> 0], names |-> [o \in Objs |-> 0],
     next |-> 1, threw |-> FALSE]

\* A second occurrence that is turned into an alias also without a document
\* context.
OnAliasNoThrow(st, o, parent, docCtx) ==
    LET name == IF st.names[o] # 0 THEN st.names[o] ELSE st.next
    IN  [st EXCEPT
           !.nodes = Append([@ EXCEPT ![st.prev[o]].anchor = name],
                            [kind |-> "alias", obj |-> o, val |-> 0,
                             anchor |-> 0, source |-> name, parent |-> parent]),
           !.names[o] = name,
           !.next = IF st.names[o] # 0 THEN @ ELSE @ + 1]

\* A second occurrence that takes a new anchor name every time.
OnAliasFreshName(st, o, parent, docCtx) ==
    IF ~docCtx THEN [st EXCEPT !.threw = TRUE]
    ELSE [st EXCEPT
           !.nodes = Append([@ EXCEPT ![st.prev[o]].anchor = st.next],
                            [kind |-> "alias", obj |-> o, val |-> 0,
                             anchor |-> 0, source |-> st.next, parent |-> parent]),
           !.names[o] = st.next,
           !.next = @ + 1]

\* createNode reaches object o again (prevObjects holds it).  Without a
\* document context this throws 'Circular references are not supported
\* here'; with one, an Alias is created, and the node of the first occurrence
\* gets an anchor: the one it has, or the next free name.
OnAlias(st, o, parent, docCtx) ==
    IF ~docCtx THEN [st EXCEPT !.threw = TRUE]
    ELSE LET name == IF st.names[o] # 0 THEN st.names[o] ELSE st.next
         IN  [st EXCEPT
                !.nodes = Append([@ EXCEPT ![st.prev[o]].anchor = name],
                                 [kind |-> "alias", obj |-> o, val |-> 0,
                                  anchor |-> 0, source |-> name, parent |-> parent]),
                !.names[o] = name,
                !.next = IF st.names[o] # 0 THEN @ ELSE @ + 1]

RECURSIVE CreateValue(_, _, _, _, _)
RECURSIVE CreateKids(_, _, _, _, _, _)

\* createNode(value, tag, ctx) for the value v below the node at index parent.
CreateValue(h, v, parent, st, docCtx) ==
    IF st.threw THEN st
    ELSE IF v \in Prims THEN
        [st EXCEPT !.nodes = Append(@, [kind |-> "scalar", obj |-> 0, val |-> v,
                                        anchor |-> 0, source |-> 0,
                                        parent |-> parent])]
    ELSE IF st.prev[v] # 0 THEN OnAlias(st, v, parent, docCtx)
    ELSE LET idx == Len(st.nodes) + 1
             node == [kind |-> IF h[v].kind = "date" THEN "scalar" ELSE "coll",
                      obj |-> v, val |-> 0, anchor |-> 0, source |-> 0,
                      parent |-> parent]
         IN  CreateKids(h, v, 1, idx,
                        [st EXCEPT !.nodes = Append(@, node), !.prev[v] = idx],
                        docCtx)

\* The entries of object o, from the k-th on, in order.
CreateKids(h, o, k, idx, st, docCtx) ==
    IF k > Len(h[o].kids) THEN st
    ELSE CreateKids(h, o, k + 1, idx,
                    CreateValue(h, h[o].kids[k], idx, st, docCtx), docCtx)

\* Document.createNode (docCtx) or YAML.createNode (no docCtx) of object 1.
CreateNode(h, docCtx) == CreateValue(h, RootObj, 0, NewCreateState, docCtx)

InitCreate ==
    /\ AliasOff
    /\ \E h \in [Objs -> HostObjects], c \in BOOLEAN :
          cn = [phase |-> "call", heap |-> h, ctx |-> c]
    /\ ts = Off /\ sf = Off /\ pr = Off
    /\ pd = Off /\ sq = Off /\ mp = Off /\ sc = Off /\ fc = Off

CreateNodeCall ==
    /\ cn.phase = "call"
    /\ cn' = [phase |-> "returned", heap |-> cn.heap, ctx |-> cn.ctx,
              res |-> CreateNode(cn.heap, cn.ctx)]
    /\ UNCHANGED <<doc, mac, pos, anchors, status, last, ts, sf, pr, pd, sq, mp, sc, fc>>

NextCreate == CreateNodeCall

SpecCreate == InitCreate /\ [][NextCreate]_vars

----------------------------------------------------------------------------
(* Properties of createNode *)

RECURSIVE ReachFrom(_, _)
ReachFrom(h, S) ==
    LET T == S \cup {o \in Objs : \E q \in S :
                         \E k \in DOMAIN h[q].kids : h[q].kids[k] = o}
    IN  IF T = S THEN S ELSE ReachFrom(h, T)

Reach(h) == ReachFrom(h, {RootObj})

\* The places where object o occurs in the value: as the root, and as entry k
\* of a reachable object q.
Occurrences(h, o) ==
    UNION {{<<q, k>> : k \in {x \in DOMAIN h[q].kids : h[q].kids[x] = o}} :
              q \in Reach(h)}
        \cup (IF o = RootObj THEN {<<0, 0>>} ELSE {})

Shared(h, o) == Cardinality(Occurrences(h, o)) >= 2

NodesOf(R, o) == {i \in 1..Len(R) : R[i].obj = o}

FirstOf(R, o) == CHOOSE i \in NodesOf(R, o) : \A j \in NodesOf(R, o) : i <= j

AliasesOf(R, o) == {i \in NodesOf(R, o) : R[i].kind = "alias"}

FirstAliasOf(R, o) == CHOOSE i \in AliasesOf(R, o) : \A j \in AliasesOf(R, o) : i <= j

KidNodes(R, i) == {j \in 1..Len(R) : R[j].parent = i}

\* The nodes below node i stand for the entries of its object, in order.
EntriesMatch(h, R, i) ==
    LET kids == h[R[i].obj].kids
        cs == KidNodes(R, i)
    IN  /\ Cardinality(cs) = Len(kids)
        /\ \A j \in cs :
              LET k == Cardinality({c \in cs : c <= j})
              IN  IF kids[k] \in Prims
                  THEN R[j].obj = 0 /\ R[j].val = kids[k] /\ R[j].kind = "scalar"
                  ELSE R[j].obj = kids[k]

\* One anchored node at the first occurrence of each shared object, an Alias
\* to it at every later one, and primitives and nulls re-emitted as they are.
AnchorsAndAliases(h, R) ==
    /\ \A o \in Reach(h) :
          /\ Cardinality(NodesOf(R, o)) = Cardinality(Occurrences(h, o))
          /\ R[FirstOf(R, o)].kind # "alias"
          /\ (R[FirstOf(R, o)].anchor # 0) <=> Shared(h, o)
          /\ \A i \in NodesOf(R, o) \ {FirstOf(R, o)} :
                /\ R[i].kind = "alias"
                /\ R[i].source = R[FirstOf(R, o)].anchor
                /\ R[i].source # 0
    /\ \A o \in Objs \ Reach(h) : NodesOf(R, o) = {}
    /\ \A i \in 1..Len(R) :
          /\ R[i].obj = 0 => R[i].kind = "scalar" /\ R[i].anchor = 0
          /\ R[i].kind = "alias" => KidNodes(R, i) = {}
          /\ (R[i].kind # "alias" /\ R[i].obj # 0) => EntriesMatch(h, R, i)
    /\ \A o, q \in Reach(h) :
          (o # q /\ Shared(h, o) /\ Shared(h, q))
              => R[FirstOf(R, o)].anchor # R[FirstOf(R, q)].anchor
    /\ {R[FirstOf(R, o)].anchor : o \in {q \in Reach(h) : Shared(h, q)}}
          = 1..Cardinality({q \in Reach(h) : Shared(h, q)})

\* C6 as stated: through a document context every object reachable more than
\* once gets one anchored node at its first occurrence and an Alias at every
\* later occurrence, the anchors are numbered 1, 2, ... in the order of the
\* objects' first occurrence, and primitives and nulls are never anchored or
\* aliased.
C6_AsStated ==
    (cn.phase = "returned" /\ cn.ctx) =>
        LET R == cn.res.nodes
            h == cn.heap
        IN  /\ ~cn.res.threw
            /\ AnchorsAndAliases(h, R)
            /\ \A o, q \in Reach(h) :
                  (Shared(h, o) /\ Shared(h, q) /\ FirstOf(R, o) < FirstOf(R, q))
                      => R[FirstOf(R, o)].anchor < R[FirstOf(R, q)].anchor

\* C6, amended: the same, with the anchors numbered 1, 2, ... in the order in
\* which the objects are first met again (the order of their first Alias).
C6_SharedObjects ==
    (cn.phase = "returned" /\ cn.ctx) =>
        LET R == cn.res.nodes
            h == cn.heap
        IN  /\ ~cn.res.threw
            /\ AnchorsAndAliases(h, R)
            /\ \A o, q \in Reach(h) :
                  (Shared(h, o) /\ Shared(h, q)
                     /\ FirstAliasOf(R, o) < FirstAliasOf(R, q))
                      => R[FirstOf(R, o)].anchor < R[FirstOf(R, q)].anchor

\* A shared object whose Alias closes a cycle, beside a repeated primitive.
C6_Witness ==
    /\ cn.phase = "returned" /\ cn.ctx
    /\ Shared(cn.heap, RootObj)
    /\ \E i \in 1..Len(cn.res.nodes) :
          /\ cn.res.nodes[i].kind = "alias"
          /\ FirstOf(cn.res.nodes, cn.res.nodes[i].obj)
                \in AncestorsOrSelf(cn.res.nodes, i)
    /\ cn.heap[2].kids = <<-1, -1>>

\* Object o lies on a cycle of references.
OnCycle(h, o) ==
    \E k \in DOMAIN h[o].kids :
        h[o].kids[k] \in Objs /\ o \in ReachFrom(h, {h[o].kids[k]})

\* C7: without a document context createNode throws 'Circular references are
\* not supported here' for every value in which an object is reachable more
\* than once, through a cycle or through sharing alone (and only then), while
\* Document.createNode of the same value succeeds with anchors and aliases.
C7_NoContextThrows ==
    (cn.phase = "returned" /\ ~cn.ctx) =>
        /\ cn.res.threw <=> (\E o \in Reach(cn.heap) : Shared(cn.heap, o))
        /\ cn.res.threw =>
              LET d == CreateNode(cn.heap, TRUE)
              IN  /\ ~d.threw
                  /\ \E i \in 1..Len(d.nodes) : d.nodes[i].kind = "alias"
                  /\ \E i \in 1..Len(d.nodes) : d.nodes[i].anchor # 0

\* The call threw for a value without any cycle: an object is merely shared.
C7_Witness ==
    /\ cn.phase = "returned" /\ ~cn.ctx /\ cn.res.threw
    /\ \A o \in Objs : ~OnCycle(cn.heap, o)

----------------------------------------------------------------------------
(* stringify(value, replacer, options) *)

\* The longest run of newlines that ends a string value.
MaxTrail == 2

Undefined == [t |-> "undefined"]
Null == [t |-> "null"]

\* What an array element or an object entry holds.
Elems == {Undefined, Null, [t |-> "num"]}
ElemLists == {<<>>} \cup {<<v>> : v \in Elems} \cup {<<v, w>> : v \in Elems, w \in Elems}

\* A string value is the text "a" followed by nl newlines; the entries of an
\* object or a Map have the keys "a", "b", in this order.
StringifyValues ==
    {Undefined, Null, [t |-> "num"]}
        \cup [t : {"str"}, nl : 0..MaxTrail]
        \cup [t : {"array", "object", "map"}, items : ElemLists]

OptionObjects == [t : {"opts"}, keepUndefined : {"unset", "true", "false"}]

\* The second and third argument, as the two overloads of stringify allow
\* them: (value, options) and (value, replacer, options).
ReplacerArgs == {Undefined, Null, [t |-> "function"], [t |-> "array"]}
OptionArgs ==
    {Undefined} \cup [t : {"number"}, n : {0, 2, 9}]
                \cup [t : {"string"}, len : {0, 2}] \cup OptionObjects
StringifyCalls ==
    [value : StringifyValues, replacer : ReplacerArgs, options : OptionArgs]
        \cup [value : StringifyValues, replacer : OptionObjects, options : {Undefined}]

Truthy(x) == x.t \notin {"undefined", "null"}

\* The keepUndefined property read from x.
KeepUndefinedOf(x) == x.t = "opts" /\ x.keepUndefined = "true"

Keys == <<"a", "b">>

ScalarText(v) ==
    IF v.t = "num" THEN "3" ELSE "null"

\* lines.join('\n') + '\n': the lines as one sequence of pieces.
RECURSIVE JoinLines(_)
JoinLines(lines) ==
    IF lines = <<>> THEN <<>>
    ELSE Head(lines) \o <<"\n">> \o JoinLines(Tail(lines))

RECURSIVE BlankLines(_)
BlankLines(n) == IF n <= 0 THEN <<>> ELSE <<(<<>>)>> \o BlankLines(n - 1)

RECURSIVE EntryLines(_, _, _)
EntryLines(items, k, keep) ==
    IF k > Len(items) THEN <<>>
    ELSE IF items[k] = Undefined /\ ~keep THEN EntryLines(items, k + 1, keep)
    ELSE <<(<<Keys[k], ": ", ScalarText(items[k])>>)>>
             \o EntryLines(items, k + 1, keep)

\* The lines of the document for a value: a scalar on one line, a string with
\* trailing newlines as a block scalar (clip for one newline, keep for more,
\* the kept blank lines written out), a collection one item per line.
DocumentLines(value, keep) ==
    CASE value.t = "str" ->
            IF value.nl = 0 THEN <<(<<"a">>)>>
            ELSE IF value.nl = 1 THEN << <<"|">>, <<"a">> >>
            ELSE << <<"|+">>, <<"a">> >> \o BlankLines(value.nl - 1)
      [] value.t = "array" ->
            IF value.items = <<>> THEN <<(<<"[]">>)>>
            ELSE [k \in 1..Len(value.items) |->
                     <<"- ", ScalarText(value.items[k])>>]
      [] value.t \in {"object", "map"} ->
            IF EntryLines(value.items, 1, keep) = <<>> THEN <<(<<"{}">>)>>
            ELSE EntryLines(value.items, 1, keep)
      [] OTHER -> <<(<<ScalarText(value)>>)>>

\* new Document(value, _replacer, options).toString(options).
DocumentToString(value, options) ==
    JoinLines(DocumentLines(value, KeepUndefinedOf(options)))

\* stringify that also gives no output for null.
StringifyNullish(c) ==
    LET isReplacer == c.replacer.t \in {"function", "array"}
        o1 == IF ~isReplacer /\ c.options = Undefined /\ Truthy(c.replacer)
              THEN c.replacer ELSE c.options
        o2 == IF o1.t = "string" THEN [t |-> "number", n |-> o1.len] ELSE o1
        o3 == IF o2.t = "number"
              THEN IF o2.n < 1 THEN Undefined
                   ELSE IF o2.n > 8 THEN [t |-> "opts", keepUndefined |-> "unset"]
                   ELSE [t |-> "opts", keepUndefined |-> "unset"]
              ELSE o2
        from == IF Truthy(o3) THEN o3
                ELSE IF Truthy(c.replacer) THEN c.replacer ELSE Undefined
    IN  IF c.value \in {Undefined, Null} /\ ~KeepUndefinedOf(from)
        THEN [undef |-> TRUE, str |-> <<>>, docs |-> 0]
        ELSE [undef |-> FALSE, str |-> DocumentToString(c.value, o3), docs |-> 1]

\* stringify that gives no output for undefined whatever keepUndefined says.
StringifyNoKeep(c) ==
    LET isReplacer == c.replacer.t \in {"function", "array"}
        o1 == IF ~isReplacer /\ c.options = Undefined /\ Truthy(c.replacer)
              THEN c.replacer ELSE c.options
        o2 == IF o1.t = "string" THEN [t |-> "number", n |-> o1.len] ELSE o1
        o3 == IF o2.t = "number"
              THEN IF o2.n < 1 THEN Undefined
                   ELSE IF o2.n > 8 THEN [t |-> "opts", keepUndefined |-> "unset"]
                   ELSE [t |-> "opts", keepUndefined |-> "unset"]
              ELSE o2
    IN  IF c.value = Undefined
        THEN [undef |-> TRUE, str |-> <<>>, docs |-> 0]
        ELSE [undef |-> FALSE, str |-> DocumentToString(c.value, o3), docs |-> 1]

\* stringify(value, replacer, options): undef says that undefined is returned,
\* str is the string returned otherwise, docs the Documents constructed.
\* A numeric options argument becomes { indent }, which holds no
\* keepUndefined.
Stringify(c) ==
    LET isReplacer == c.replacer.t \in {"function", "array"}
        o1 == IF ~isReplacer /\ c.options = Undefined /\ Truthy(c.replacer)
              THEN c.replacer ELSE c.options
        o2 == IF o1.t = "string" THEN [t |-> "number", n |-> o1.len] ELSE o1
        o3 == IF o2.t = "number"
              THEN IF o2.n < 1 THEN Undefined
                   ELSE IF o2.n > 8 THEN [t |-> "opts", keepUndefined |-> "unset"]
                   ELSE [t |-> "opts", keepUndefined |-> "unset"]
              ELSE o2
        from == IF Truthy(o3) THEN o3
                ELSE IF Truthy(c.replacer) THEN c.replacer ELSE Undefined
    IN  IF c.value = Undefined /\ ~KeepUndefinedOf(from)
        THEN [undef |-> TRUE, str |-> <<>>, docs |-> 0]
        ELSE [undef |-> FALSE, str |-> DocumentToString(c.value, o3), docs |-> 1]

InitStringify ==
    /\ AliasOff
    /\ \E c \in StringifyCalls : sf = [phase |-> "call", call |-> c]
    /\ ts = Off /\ cn = Off /\ pr = Off
    /\ pd = Off /\ sq = Off /\ mp = Off /\ sc = Off /\ fc = Off

StringifyCall ==
    /\ sf.phase = "call"
    /\ sf' = [phase |-> "returned", call |-> sf.call, res |-> Stringify(sf.call)]
    /\ UNCHANGED <<doc, mac, pos, anchors, status, last, ts, cn, pr, pd, sq, mp, sc, fc>>

NextStringify == StringifyCall

SpecStringify == InitStringify /\ [][NextStringify]_vars

----------------------------------------------------------------------------
(* Properties of stringify *)

\* The number of newlines that end the text s.
RECURSIVE TrailingNewlines(_)
TrailingNewlines(s) ==
    IF s = <<>> \/ s[Len(s)] # "\n" THEN 0
    ELSE 1 + TrailingNewlines(SubSeq(s, 1, Len(s) - 1))

\* The options object the caller passed, in either position.
OptionsGiven(c) ==
    IF c.options.t = "opts" THEN c.options
    ELSE IF c.replacer.t = "opts" THEN c.replacer
    ELSE Undefined

RECURSIVE SplitLines(_, _)
SplitLines(s, cur) ==
    IF s = <<>> THEN <<>>
    ELSE IF Head(s) = "\n" THEN <<cur>> \o SplitLines(Tail(s), <<>>)
    ELSE SplitLines(Tail(s), Append(cur, Head(s)))

\* The keys of the entries that are emitted: all with keepUndefined, those
\* with a value other than undefined without it.
EmittedKeys(items, keep) ==
    {k \in 1..Len(items) : keep \/ items[k] # Undefined}

\* C9: stringify returns undefined, without constructing a Document, exactly
\* when the value is undefined and keepUndefined is not set in the options;
\* with keepUndefined, stringify(undefined) is 'null\n'.  An undefined array
\* element is emitted as null; an undefined object or Map entry is omitted
\* unless keepUndefined is set, and then emitted as null.
C9_UndefinedValues ==
    sf.phase = "returned" =>
        LET c == sf.call
            keep == KeepUndefinedOf(OptionsGiven(c))
            lines == SplitLines(sf.res.str, <<>>)
        IN  /\ (sf.res.undef /\ sf.res.docs = 0) <=> (c.value = Undefined /\ ~keep)
            /\ sf.res.undef <=> (sf.res.docs = 0)
            /\ (c.value = Undefined /\ keep) => sf.res.str = <<"null", "\n">>
            /\ (c.value.t = "array" /\ c.value.items # <<>>) =>
                  /\ Len(lines) = Len(c.value.items)
                  /\ \A k \in 1..Len(lines) :
                        lines[k] = <<"- ", IF c.value.items[k].t = "num"
                                           THEN "3" ELSE "null">>
            /\ c.value.t \in {"object", "map"} =>
                  LET ks == EmittedKeys(c.value.items, keep)
                  IN  IF ks = {} THEN lines = <<(<<"{}">>)>>
                      ELSE /\ Len(lines) = Cardinality(ks)
                           /\ \A k \in ks :
                                 \E i \in 1..Len(lines) :
                                     lines[i] = <<Keys[k], ": ",
                                                  IF c.value.items[k].t = "num"
                                                  THEN "3" ELSE "null">>
                           /\ \A k \in (1..Len(c.value.items)) \ ks :
                                 \A i \in 1..Len(lines) : lines[i][1] # Keys[k]

\* stringify(undefined, { keepUndefined: true }) returned 'null\n'.
C9_Witness ==
    /\ sf.phase = "returned"
    /\ sf.call.value = Undefined
    /\ sf.call.replacer = [t |-> "opts", keepUndefined |-> "true"]
    /\ sf.res.str = <<"null", "\n">> /\ sf.res.docs = 1

----------------------------------------------------------------------------
(* parse(src, reviver, options) *)

MaxErrors == 2
MaxWarnings == 1

ErrorCodes == {"BAD_INDENT", "MULTIPLE_DOCS"}
WarningCodes == {"TAG_RESOLVE_FAILED"}
LogLevels == {"silent", "error", "warn"}

RECURSIVE SeqsUpTo(_, _)
SeqsUpTo(S, n) ==
    IF n = 0 THEN {<<>>}
    ELSE LET shorter == SeqsUpTo(S, n - 1)
         IN  shorter \cup {Append(q, x) : q \in shorter, x \in S}

Node(k, a, s, p) == [kind |-> k, anchor |-> a, source |-> s, parent |-> p]

\* The documents parseDocument composes here: an empty one, a scalar, and
\* sequences in which every alias follows its anchor.
ParsedDocs ==
    { <<>>,
      <<Node("scalar", NoLabel, NoLabel, 0)>>,
      <<Node("seq", NoLabel, NoLabel, 0), Node("scalar", "a", NoLabel, 1),
        Node("alias", NoLabel, "a", 1)>>,
      <<Node("seq", NoLabel, NoLabel, 0), Node("seq", "a", NoLabel, 1),
        Node("alias", NoLabel, "a", 1)>>,
      <<Node("seq", NoLabel, NoLabel, 0), Node("scalar", "a", NoLabel, 1),
        Node("alias", NoLabel, "a", 1), Node("alias", NoLabel, "a", 1)>>,
      <<Node("map", NoLabel, NoLabel, 0), Node("pair", NoLabel, NoLabel, 1),
        Node("scalar", "b", NoLabel, 2), Node("alias", NoLabel, "b", 2)>> }

\* parse that throws the first error whatever the log level.
ParseNeverSilent(d, errors, warnings, logLevel, m) ==
    LET warned == [i \in 1..Len(warnings) |-> <<logLevel, warnings[i]>>]
    IN  IF Len(errors) > 0
        THEN [kind |-> "throw", value |-> errors[1],
              errors |-> errors, warned |-> warned]
        ELSE LET r == ToJSRun(d, 1, <<>>, m)
             IN  [kind |-> IF r = "done" THEN "value" ELSE "throw",
                  value |-> r, errors |-> errors, warned |-> warned]

\* parse, from the composed document on: every warning goes to warn, the
\* first error is thrown unless the log level is 'silent', which clears the
\* errors, and the result is that of doc.toJS.
Parse(d, errors, warnings, logLevel, m) ==
    LET warned == [i \in 1..Len(warnings) |-> <<logLevel, warnings[i]>>]
    IN  IF Len(errors) > 0 /\ logLevel # "silent"
        THEN [kind |-> "throw", value |-> errors[1],
              errors |-> errors, warned |-> warned]
        ELSE LET r == ToJSRun(d, 1, <<>>, m)
             IN  [kind |-> IF r = "done" THEN "value" ELSE "throw",
                  value |-> r, errors |-> <<>>, warned |-> warned]

InitParse ==
    /\ doc \in ParsedDocs
    /\ mac \in MaxAliasCounts
    /\ pos = 0 /\ anchors = <<>> /\ status = "off" /\ last = NoCall
    /\ \E e \in SeqsUpTo(ErrorCodes, MaxErrors),
          w \in SeqsUpTo(WarningCodes, MaxWarnings), l \in LogLevels :
          pr = [phase |-> "call", errors |-> e, warnings |-> w, logLevel |-> l]
    /\ ts = Off /\ cn = Off /\ sf = Off
    /\ pd = Off /\ sq = Off /\ mp = Off /\ sc = Off /\ fc = Off

ParseCall ==
    /\ pr.phase = "call"
    /\ pr' = [phase |-> "returned", errors |-> pr.errors,
              warnings |-> pr.warnings, logLevel |-> pr.logLevel,
              res |-> Parse(doc, pr.errors, pr.warnings, pr.logLevel, mac)]
    /\ UNCHANGED <<doc, mac, pos, anchors, status, last, ts, cn, sf, pd, sq, mp, sc, fc>>

NextParse == ParseCall

SpecParse == InitParse /\ [][NextParse]_vars

----------------------------------------------------------------------------
(* Properties of parse *)

\* C10 as stated: parse throws if and only if the document has an error and
\* logLevel is not 'silent', and throws the first error; with 'silent' the
\* errors are cleared and the value is returned; warnings alone never make
\* parse throw.
C10_AsStated ==
    pr.phase = "returned" =>
        /\ (pr.res.kind = "throw") <=> (Len(pr.errors) > 0 /\ pr.logLevel # "silent")
        /\ pr.res.kind = "throw" => pr.res.value = pr.errors[1]
        /\ pr.logLevel = "silent" => (pr.res.kind = "value" /\ pr.res.errors = <<>>)
        /\ pr.errors = <<>> => pr.res.kind = "value"

\* C10, amended: parse throws one of the document's errors if and only if
\* the document has an error and logLevel is not 'silent', and it is the first
\* error; otherwise the errors are cleared and parse gives what doc.toJS
\* gives, the native value or the ReferenceError of an alias (excessive alias
\* count, unresolved alias); every warning is passed to the logger, and the
\* warnings never change the outcome.
C10_ParseThrows ==
    pr.phase = "returned" =>
        LET docError == pr.res.kind = "throw" /\ pr.res.value \in ErrorCodes
            js == ToJSRun(doc, 1, <<>>, mac)
        IN  /\ docError <=> (Len(pr.errors) > 0 /\ pr.logLevel # "silent")
            /\ docError => (pr.res.value = pr.errors[1] /\ pr.res.errors = pr.errors)
            /\ ~docError =>
                  /\ pr.res.errors = <<>>
                  /\ pr.res.kind = "throw" <=> js \in {"excessive", "unresolved"}
                  /\ pr.res.kind = "throw" => pr.res.value = js
            /\ Len(pr.res.warned) = Len(pr.warnings)
            /\ \A i \in 1..Len(pr.warnings) :
                  pr.res.warned[i] = <<pr.logLevel, pr.warnings[i]>>

\* A document with two errors and a warning was parsed with logLevel
\* 'silent': the errors were cleared and the value returned.
C10_Witness ==
    /\ pr.phase = "returned"
    /\ Len(pr.errors) = 2 /\ pr.errors[1] # pr.errors[2]
    /\ Len(pr.warnings) = 1
    /\ pr.logLevel = "silent"
    /\ pr.res.kind = "value" /\ pr.res.errors = <<>>

----------------------------------------------------------------------------
(* parseDocument(source, options) and parseAllDocuments(source, options) *)

MaxDocs == 3

\* The variables of the calls modelled above.
Earlier == <<doc, mac, pos, anchors, status, last, ts, cn, sf, pr>>
EarlierOff == AliasOff /\ ts = Off /\ cn = Off /\ sf = Off /\ pr = Off

YAMLError(code, p) == [code |-> code, pos |-> p, pretty |-> FALSE]

\* The k-th document the composer makes of the source: it starts at one of
\* two offsets behind the documents before it, and has no error of its own or
\* one, with a warning.
ComposedDocs(k) ==
    {[id |-> k, start |-> st, errors |-> e[1], warnings |-> e[2]] :
        st \in {2 * k - 2, 2 * k - 1},
        e \in {<< <<>>, <<>> >>,
               << <<YAMLError("BAD_INDENT", 2 * k - 1)>>,
                  <<YAMLError("TAG_RESOLVE_FAILED", 2 * k - 1)>> >>}}

RECURSIVE Streams(_)
Streams(n) ==
    IF n = 0 THEN {<<>>}
    ELSE LET shorter == Streams(n - 1)
         IN  shorter \cup {Append(q, d) : q \in {x \in shorter : Len(x) = n - 1},
                                          d \in ComposedDocs(n)}

\* The document composer.end(true) makes when the source held none.
ForcedDoc == [id |-> 0, start |-> 0, errors |-> <<>>, warnings |-> <<>>]

\* parseOptions: errors are prettified unless options.prettyErrors is false
\* (a LineCounter is made when none is given).
PrettyErrors(options) == ~options.given \/ options.prettyErrors # "false"

\* errors.forEach(prettifyError(source, lineCounter))
Prettify(errors) == [i \in DOMAIN errors |-> [errors[i] EXCEPT !.pretty = TRUE]]

PrettifyDoc(d, options) ==
    IF PrettyErrors(options)
    THEN [d EXCEPT !.errors = Prettify(@), !.warnings = Prettify(@)]
    ELSE d

\* A callback under which a later document takes the place of the first.
OnDocumentReplaces(docs, d, logLevel) == <<d>>

\* A callback that puts the error at the start of the first document.
OnDocumentAtFirst(docs, d, logLevel) ==
    IF docs = <<>> THEN <<d>>
    ELSE IF logLevel # "silent"
    THEN <<[docs[1] EXCEPT
              !.errors = Append(@, YAMLError("MULTIPLE_DOCS", docs[1].start))]>>
    ELSE docs

\* The callback parseDocument gives the Composer: the first document is
\* kept, each further one adds a MULTIPLE_DOCS error at its range start to
\* the first, unless the log level is 'silent'.
OnDocument(docs, d, logLevel) ==
    IF docs = <<>> THEN <<d>>
    ELSE IF logLevel # "silent"
    THEN <<[docs[1] EXCEPT
              !.errors = Append(@, YAMLError("MULTIPLE_DOCS", d.start))]>>
    ELSE docs

\* A callback that puts each document in front of the others.
OnDocumentAllFront(docs, d) == <<d>> \o docs

\* The callback parseAllDocuments gives the Composer: docs.push(doc).
OnDocumentAll(docs, d) == Append(docs, d)

\* What parseAllDocuments returns: the documents, or an empty array with
\* empty: true and the composer's stream info.
ParseAllResult(docs, options) ==
    IF Len(docs) > 0
    THEN [docs |-> [i \in DOMAIN docs |-> PrettifyDoc(docs[i], options)],
          empty |-> FALSE, streamInfo |-> FALSE]
    ELSE [docs |-> <<>>, empty |-> TRUE, streamInfo |-> TRUE]

ParseOptionSets ==
    [given : {TRUE}, prettyErrors : {"unset", "false"},
     logLevel : {"silent", "error", "warn"}]
        \cup [given : {FALSE}, prettyErrors : {"unset"}, logLevel : {"warn"}]

InitDocuments ==
    /\ EarlierOff
    /\ \E a \in {"parseDocument", "parseAllDocuments"},
          st \in Streams(MaxDocs), o \in ParseOptionSets :
          pd = [phase |-> "compose", api |-> a, stream |-> st, options |-> o,
                k |-> 1, docs |-> <<>>]
    /\ sq = Off /\ mp = Off /\ sc = Off /\ fc = Off

\* parser.parse(source): the composer hands over the next document.
ParseDocumentOnDoc ==
    /\ pd.phase = "compose" /\ pd.api = "parseDocument"
    /\ pd.k <= Len(pd.stream)
    /\ pd' = [pd EXCEPT !.k = @ + 1,
                        !.docs = OnDocument(@, pd.stream[pd.k], pd.options.logLevel)]
    /\ UNCHANGED <<Earlier, sq, mp, sc, fc>>

\* composer.end(true, source.length), prettifyError, return doc.
ParseDocumentEnd ==
    /\ pd.phase = "compose" /\ pd.api = "parseDocument"
    /\ pd.k > Len(pd.stream)
    /\ LET docs == IF pd.docs = <<>>
                   THEN OnDocument(pd.docs, ForcedDoc, pd.options.logLevel)
                   ELSE pd.docs
       IN  pd' = [pd EXCEPT !.phase = "returned",
                            !.docs = <<PrettifyDoc(docs[1], pd.options)>>]
    /\ UNCHANGED <<Earlier, sq, mp, sc, fc>>

ParseAllOnDoc ==
    /\ pd.phase = "compose" /\ pd.api = "parseAllDocuments"
    /\ pd.k <= Len(pd.stream)
    /\ pd' = [pd EXCEPT !.k = @ + 1,
                        !.docs = OnDocumentAll(@, pd.stream[pd.k])]
    /\ UNCHANGED <<Earlier, sq, mp, sc, fc>>

\* composer.end(), prettifyError, return docs or the EmptyStream.
ParseAllEnd ==
    /\ pd.phase = "compose" /\ pd.api = "parseAllDocuments"
    /\ pd.k > Len(pd.stream)
    /\ pd' = [phase |-> "returned", api |-> pd.api, stream |-> pd.stream,
              options |-> pd.options, k |-> pd.k,
              docs |-> ParseAllResult(pd.docs, pd.options).docs,
              empty |-> ParseAllResult(pd.docs, pd.options).empty,
              streamInfo |-> ParseAllResult(pd.docs, pd.options).streamInfo]
    /\ UNCHANGED <<Earlier, sq, mp, sc, fc>>

NextDocuments ==
    ParseDocumentOnDoc \/ ParseDocumentEnd \/ ParseAllOnDoc \/ ParseAllEnd

SpecDocuments == InitDocuments /\ [][NextDocuments]_vars

----------------------------------------------------------------------------
(* Properties of parseDocument and parseAllDocuments *)

\* The MULTIPLE_DOCS errors among errors, in order.
MultipleDocs(errors) == SelectSeq(errors, LAMBDA e : e.code = "MULTIPLE_DOCS")
OwnErrors(errors) == SelectSeq(errors, LAMBDA e : e.code # "MULTIPLE_DOCS")

ReturnedBy(api) == pd.phase = "returned" /\ pd.api = api

\* C11 as stated: for a source of n >= 1 documents parseDocument returns the
\* first, and its errors gain one MULTIPLE_DOCS error for each of the n-1
\* further documents, at that document's range start.
C11_AsStated ==
    (ReturnedBy("parseDocument") /\ Len(pd.stream) >= 1) =>
        /\ pd.docs[1].id = pd.stream[1].id
        /\ Len(MultipleDocs(pd.docs[1].errors)) = Len(pd.stream) - 1
        /\ \A i \in 1..Len(MultipleDocs(pd.docs[1].errors)) :
              MultipleDocs(pd.docs[1].errors)[i].pos = pd.stream[i + 1].start

\* C11, amended: parseDocument returns the first document of the stream; its
\* own errors are kept, and unless logLevel is 'silent' they are followed by
\* one MULTIPLE_DOCS error for each further document, in stream order, at
\* that document's range start; with logLevel 'silent' no error is added.
C11_MultipleDocs ==
    (ReturnedBy("parseDocument") /\ Len(pd.stream) >= 1) =>
        LET errs == pd.docs[1].errors
            more == MultipleDocs(errs)
            own == Len(pd.stream[1].errors)
        IN  /\ pd.docs[1].id = pd.stream[1].id
            /\ pd.docs[1].start = pd.stream[1].start
            /\ [i \in 1..own |-> errs[i].code] = [i \in 1..own |-> pd.stream[1].errors[i].code]
            /\ errs = SubSeq(errs, 1, own) \o more
            /\ IF pd.options.logLevel = "silent" THEN more = <<>>
               ELSE /\ Len(more) = Len(pd.stream) - 1
                    /\ \A i \in 1..Len(more) : more[i].pos = pd.stream[i + 1].start

\* parseDocument returned for a source of three documents, the first with an
\* error of its own, and two MULTIPLE_DOCS errors were added.
C11_Witness ==
    /\ ReturnedBy("parseDocument") /\ Len(pd.stream) = 3
    /\ Len(pd.stream[1].errors) = 1
    /\ pd.stream[2].start = 3 /\ pd.stream[3].start = 4
    /\ Len(MultipleDocs(pd.docs[1].errors)) = 2

\* C12: parseAllDocuments returns the composed documents in stream order; it
\* returns an empty array with empty: true and the stream info exactly when no
\* document was composed; it does not throw for input errors, which stay on
\* the documents' errors lists.
C12_AllDocuments ==
    ReturnedBy("parseAllDocuments") =>
        /\ Len(pd.docs) = Len(pd.stream)
        /\ \A i \in 1..Len(pd.docs) :
              /\ pd.docs[i].id = pd.stream[i].id
              /\ Len(pd.docs[i].errors) = Len(pd.stream[i].errors)
              /\ \A j \in 1..Len(pd.docs[i].errors) :
                    /\ pd.docs[i].errors[j].code = pd.stream[i].errors[j].code
                    /\ pd.docs[i].errors[j].pos = pd.stream[i].errors[j].pos
        /\ pd.empty <=> (Len(pd.stream) = 0)
        /\ pd.empty <=> pd.streamInfo
        /\ pd.empty => pd.docs = <<>>

\* parseAllDocuments returned three documents, the second one with an error.
C12_Witness ==
    /\ ReturnedBy("parseAllDocuments") /\ Len(pd.docs) = 3
    /\ Len(pd.docs[2].errors) = 1 /\ Len(pd.docs[1].errors) = 0
    /\ ~pd.empty

----------------------------------------------------------------------------
(* YAMLSeq: add, delete, get, has, set *)

MaxItems == 2

\* Values: numbers are integers, 1.5 (Frac) or NaN; a string is known by
\* whether it is empty and by what Number() makes of it.
Num(n) == [t |-> "num", v |-> n]
Frac == [t |-> "frac"]
NaN == [t |-> "nan"]
Str(empty, num) == [t |-> "str", empty |-> empty, num |-> num]
ScalarNode(v) == [t |-> "scalar", value |-> v]
SeqNode == [t |-> "seq"]
AliasNode == [t |-> "alias"]

Numbers == {Num(n) : n \in -1..MaxItems} \cup {Frac, NaN}

\* '' (Number('') is 0), '-1', '0', '1', '1.5', 'abc'.
Strings ==
    {Str(TRUE, Num(0))} \cup {Str(FALSE, x) : x \in {Num(-1), Num(0), Num(1), Frac, NaN}}

PlainKeys ==
    Numbers \cup Strings \cup {Null, Undefined, [t |-> "bool"], SeqNode}

\* A key may be wrapped in a Scalar.
WrappedKeys ==
    {ScalarNode(k) : k \in {Num(-1), Num(0), Str(TRUE, Num(0)),
                            Str(FALSE, Num(1)), Null, ScalarNode(Num(0))}}

SeqKeys == PlainKeys \cup WrappedKeys

\* What add and set are given: a primitive, a Scalar, a collection, an alias.
SeqValues == {Num(7), ScalarNode(Num(8)), SeqNode, AliasNode}

isScalar(x) == x.t = "scalar"

\* isScalarValue: not an object (null counts as a scalar value).
isScalarValue(x) == x.t \notin {"scalar", "seq", "alias"}

\* What asItemIndex returns for a key that is no index (null).
NoIndex == -1

\* asItemIndex that takes the empty string for 0.
asItemIndexEmpty(key) ==
    LET idx0 == IF isScalar(key) THEN key.value ELSE key
        idx1 == IF idx0.t = "str" THEN idx0.num ELSE idx0
    IN  IF idx1.t = "num" /\ idx1.v >= 0 THEN idx1.v ELSE NoIndex

\* asItemIndex(key): the key, unwrapped if a Scalar and through Number() if a
\* non-empty string, when that is an integer >= 0; null otherwise.
asItemIndex(key) ==
    LET idx0 == IF isScalar(key) THEN key.value ELSE key
        idx1 == IF idx0.t = "str" /\ ~idx0.empty THEN idx0.num ELSE idx0
    IN  IF idx1.t = "num" /\ idx1.v >= 0 THEN idx1.v ELSE NoIndex

\* this.items[idx], for idx >= 0 (items is indexed from 1 here).
ItemAt(items, idx) == IF idx + 1 <= Len(items) THEN items[idx + 1] ELSE Undefined

SeqAdd(items, value) == [items |-> Append(items, value), ret |-> Undefined]

SeqDelete(items, key) ==
    LET idx == asItemIndex(key)
    IN  IF idx = NoIndex THEN [items |-> items, ret |-> FALSE]
        ELSE IF idx + 1 <= Len(items)
        THEN [items |-> SubSeq(items, 1, idx) \o SubSeq(items, idx + 2, Len(items)),
              ret |-> TRUE]
        ELSE [items |-> items, ret |-> FALSE]

\* get that unwraps a Scalar whatever keepScalar says.
SeqGetUnwraps(items, key, keepScalar) ==
    LET idx == asItemIndex(key)
    IN  IF idx = NoIndex THEN [items |-> items, ret |-> Undefined]
        ELSE LET it == ItemAt(items, idx)
             IN  [items |-> items, ret |-> IF isScalar(it) THEN it.value ELSE it]

SeqGet(items, key, keepScalar) ==
    LET idx == asItemIndex(key)
    IN  IF idx = NoIndex THEN [items |-> items, ret |-> Undefined]
        ELSE LET it == ItemAt(items, idx)
             IN  [items |-> items,
                  ret |-> IF ~keepScalar /\ isScalar(it) THEN it.value ELSE it]

SeqHas(items, key) ==
    LET idx == asItemIndex(key)
    IN  [items |-> items, ret |-> idx # NoIndex /\ idx < Len(items)]

\* set: a scalar value replaces the value of a Scalar item, anything else
\* the item; an index beyond the end leaves holes (undefined) before it.
SeqSet(items, key, value) ==
    LET idx == asItemIndex(key)
    IN  IF idx = NoIndex THEN [items |-> items, ret |-> "throw"]
        ELSE LET prev == ItemAt(items, idx)
                 new == IF isScalar(prev) /\ isScalarValue(value)
                        THEN ScalarNode(value) ELSE value
                 padded == items \o [i \in 1..(idx + 1 - Len(items)) |-> Undefined]
             IN  [items |-> [padded EXCEPT ![idx + 1] = new], ret |-> "done"]

SeqCall(o, key, keep, value, r) ==
    [items |-> r.items, op |-> o, key |-> key, keepScalar |-> keep,
     value |-> value, ret |-> r.ret, before |-> sq.items]

InitSeq ==
    /\ EarlierOff
    /\ sq = [items |-> <<>>, op |-> "new", key |-> Undefined, keepScalar |-> FALSE,
             value |-> Undefined, ret |-> Undefined, before |-> <<>>]
    /\ pd = Off /\ mp = Off /\ sc = Off /\ fc = Off

Add ==
    /\ Len(sq.items) < MaxItems
    /\ \E v \in SeqValues :
          sq' = SeqCall("add", Undefined, FALSE, v, SeqAdd(sq.items, v))
    /\ UNCHANGED <<Earlier, pd, mp, sc, fc>>

Delete ==
    /\ \E k \in SeqKeys :
          sq' = SeqCall("delete", k, FALSE, Undefined, SeqDelete(sq.items, k))
    /\ UNCHANGED <<Earlier, pd, mp, sc, fc>>

Get ==
    /\ \E k \in SeqKeys, keep \in BOOLEAN :
          sq' = SeqCall("get", k, keep, Undefined, SeqGet(sq.items, k, keep))
    /\ UNCHANGED <<Earlier, pd, mp, sc, fc>>

Has ==
    /\ \E k \in SeqKeys :
          sq' = SeqCall("has", k, FALSE, Undefined, SeqHas(sq.items, k))
    /\ UNCHANGED <<Earlier, pd, mp, sc, fc>>

\* The index is kept within the bound on the length (the code has no limit).
Set ==
    /\ \E k \in SeqKeys, v \in SeqValues :
          /\ asItemIndex(k) < MaxItems
          /\ sq' = SeqCall("set", k, FALSE, v, SeqSet(sq.items, k, v))
    /\ UNCHANGED <<Earlier, pd, mp, sc, fc>>

NextSeq == Add \/ Delete \/ Get \/ Has \/ Set

SpecSeq == InitSeq /\ [][NextSeq]_vars

----------------------------------------------------------------------------
(* Properties of YAMLSeq *)

\* The number a key stands for: the key itself, the value of a Scalar, the
\* number a non-empty string reads as.
KeyNumber(key) ==
    LET k == IF key.t = "scalar" THEN key.value ELSE key
    IN  IF k.t = "str" THEN (IF k.empty THEN Undefined ELSE k.num) ELSE k

ValidIndex(key) == KeyNumber(key).t = "num" /\ KeyNumber(key).v >= 0

\* C13: for a key that is not a non-negative integer (after unwrapping a
\* Scalar and converting a non-empty string), get returns undefined, has
\* false, delete false, set throws, and the items are unchanged; so only a
\* valid key addresses an item.
C13_InvalidKey ==
    (sq.op \in {"get", "has", "delete", "set"} /\ ~ValidIndex(sq.key)) =>
        /\ sq.items = sq.before
        /\ sq.op = "get" => sq.ret = Undefined
        /\ sq.op = "has" => sq.ret = FALSE
        /\ sq.op = "delete" => sq.ret = FALSE
        /\ sq.op = "set" => sq.ret = "throw"

\* set with the key '-1' threw on a sequence of two items, which it left as
\* they were.
C13_Witness ==
    /\ sq.op = "set" /\ sq.key = Str(FALSE, Num(-1))
    /\ sq.ret = "throw" /\ Len(sq.items) = 2 /\ sq.items = sq.before

\* C14: get with a valid index returns the value of a Scalar item when
\* keepScalar is falsy and the Scalar itself when it is truthy; an item that is
\* no Scalar is returned as it is in both cases; get never changes the items.
C14_GetUnwraps ==
    sq.op = "get" =>
        /\ sq.items = sq.before
        /\ (ValidIndex(sq.key) /\ KeyNumber(sq.key).v < Len(sq.before)) =>
              LET it == sq.before[KeyNumber(sq.key).v + 1]
              IN  IF it.t = "scalar" /\ ~sq.keepScalar
                  THEN sq.ret = it.value
                  ELSE sq.ret = it

\* get('1', true) returned the Scalar at index 1.
C14_Witness ==
    /\ sq.op = "get" /\ sq.key = Str(FALSE, Num(1)) /\ sq.keepScalar
    /\ Len(sq.items) = 2 /\ sq.items[2].t = "scalar"
    /\ sq.ret = sq.items[2]

----------------------------------------------------------------------------
(* A document's mapping under sortMapEntries: add, set, toString *)

MaxValue == 2

\* The keys 'a', 'b', 'bb', 'c', as the sequences of their letters.
KeyA == <<1>>
KeyB == <<2>>
KeyBB == <<2, 2>>
KeyC == <<3>>
MapKeys == {KeyA, KeyB, KeyBB, KeyC}
MapValues == 1..MaxValue

SortModes == {"none", "true", "function"}

\* a < b for strings: the first letter that differs decides, a proper prefix
\* is smaller.
RECURSIVE StrLess(_, _)
StrLess(a, b) ==
    IF b = <<>> THEN FALSE
    ELSE IF a = <<>> THEN TRUE
    ELSE IF Head(a) # Head(b) THEN Head(a) < Head(b)
    ELSE StrLess(Tail(a), Tail(b))

\* The comparator in force: for true, (a, b) => a.key < b.key ? -1 :
\* a.key > b.key ? 1 : 0; the function given here is its reverse.
SortEntries(mode, a, b) ==
    IF mode = "true"
    THEN (IF StrLess(a.key, b.key) THEN -1 ELSE IF StrLess(b.key, a.key) THEN 1 ELSE 0)
    ELSE (IF StrLess(a.key, b.key) THEN 1 ELSE IF StrLess(b.key, a.key) THEN -1 ELSE 0)

FindPair(items, key) ==
    IF \E i \in DOMAIN items : items[i].key = key
    THEN CHOOSE i \in DOMAIN items : items[i].key = key
    ELSE 0

\* add that always pushes the pair at the end.
MapAddPush(mode, items, pair, overwrite) ==
    LET prev == FindPair(items, pair.key)
    IN  IF prev # 0
        THEN IF overwrite
             THEN [items |-> [items EXCEPT ![prev].value = pair.value], threw |-> FALSE]
             ELSE [items |-> items, threw |-> TRUE]
        ELSE [items |-> Append(items, pair), threw |-> FALSE]

\* YAMLMap.add(pair, overwrite): a pair with a key that is there replaces the
\* value (set) or throws (add); a new pair goes before the first item it sorts
\* before, or to the end.
MapAdd(mode, items, pair, overwrite) ==
    LET prev == FindPair(items, pair.key)
    IN  IF prev # 0
        THEN IF overwrite
             THEN [items |-> [items EXCEPT ![prev].value = pair.value], threw |-> FALSE]
             ELSE [items |-> items, threw |-> TRUE]
        ELSE IF mode # "none"
        THEN LET before == {i \in DOMAIN items : SortEntries(mode, pair, items[i]) < 0}
                 i == IF before = {} THEN Len(items) + 1
                      ELSE CHOOSE x \in before : \A y \in before : x <= y
             IN  [items |-> SubSeq(items, 1, i - 1) \o <<pair>>
                                \o SubSeq(items, i, Len(items)),
                  threw |-> FALSE]
        ELSE [items |-> Append(items, pair), threw |-> FALSE]

\* items.sort(sortMapEntries), by insertion from the left.
RECURSIVE SortItems(_, _)
SortItems(mode, items) ==
    IF items = <<>> \/ mode = "none" THEN items
    ELSE LET front == SortItems(mode, SubSeq(items, 1, Len(items) - 1))
             x == items[Len(items)]
             after == {i \in DOMAIN front : SortEntries(mode, x, front[i]) < 0}
             i == IF after = {} THEN Len(front) + 1
                  ELSE CHOOSE a \in after : \A b \in after : a <= b
         IN  SubSeq(front, 1, i - 1) \o <<x>> \o SubSeq(front, i, Len(front))

\* The mapping's lines: the pairs, sorted when the option is set.
MapToString(mode, items) ==
    LET sorted == SortItems(mode, items)
    IN  [i \in DOMAIN sorted |-> <<sorted[i].key, ": ", sorted[i].value>>]

\* The objects a document is made of: {} and { b: 2, a: 1, c: 1 }.
MapSources ==
    {<<>>, <<[key |-> KeyB, value |-> 2], [key |-> KeyA, value |-> 1],
             [key |-> KeyC, value |-> 1]>>}

\* new Document(obj, { sortMapEntries }).
InitMap ==
    /\ EarlierOff
    /\ \E m \in SortModes, o \in MapSources :
          mp = [phase |-> "doc", mode |-> m, items |-> SortItems(m, o),
                order |-> [i \in DOMAIN o |-> o[i].key],
                op |-> "new", threw |-> FALSE, out |-> <<>>]
    /\ pd = Off /\ sq = Off /\ sc = Off /\ fc = Off

MapCall(o, pair, r) ==
    [mp EXCEPT !.items = r.items, !.op = o, !.threw = r.threw, !.out = <<>>,
               !.order = IF FindPair(mp.items, pair.key) = 0 /\ ~r.threw
                         THEN Append(@, pair.key) ELSE @]

DocAdd ==
    /\ \E k \in MapKeys, v \in MapValues :
          LET pair == [key |-> k, value |-> v]
          IN  mp' = MapCall("add", pair, MapAdd(mp.mode, mp.items, pair, FALSE))
    /\ UNCHANGED <<Earlier, pd, sq, sc, fc>>

DocSet ==
    /\ \E k \in MapKeys, v \in MapValues :
          LET pair == [key |-> k, value |-> v]
          IN  mp' = MapCall("set", pair, MapAdd(mp.mode, mp.items, pair, TRUE))
    /\ UNCHANGED <<Earlier, pd, sq, sc, fc>>

DocToString ==
    /\ mp' = [mp EXCEPT !.op = "toString", !.threw = FALSE,
                        !.out = MapToString(mp.mode, mp.items)]
    /\ UNCHANGED <<Earlier, pd, sq, sc, fc>>

NextMap == DocAdd \/ DocSet \/ DocToString

SpecMap == InitMap /\ [][NextMap]_vars

----------------------------------------------------------------------------
(* Properties of sortMapEntries *)

KeysOf(items) == [i \in DOMAIN items |-> items[i].key]

\* Each pair stands before every later pair under less.
Ascending(keys) ==
    \A i \in DOMAIN keys : \A j \in DOMAIN keys : i < j => StrLess(keys[i], keys[j])
Descending(keys) ==
    \A i \in DOMAIN keys : \A j \in DOMAIN keys : i < j => StrLess(keys[j], keys[i])

\* C15: with sortMapEntries: true the pairs are held, and serialized, in
\* ascending key order after any adds and sets; with the comparator function
\* in the order of that comparator; without the option in insertion order.
C15_SortedEntries ==
    mp.phase # "off" =>
        /\ mp.mode = "true" => Ascending(KeysOf(mp.items))
        /\ mp.mode = "function" => Descending(KeysOf(mp.items))
        /\ mp.mode = "none" => KeysOf(mp.items) = mp.order
        /\ mp.op = "toString" =>
              /\ Len(mp.out) = Len(mp.items)
              /\ \A i \in DOMAIN mp.out :
                    mp.out[i] = <<mp.items[i].key, ": ", mp.items[i].value>>

\* 'bb' was added to the sorted map made of { b, a, c }: a, b, bb, c.
C15_Witness ==
    /\ mp.phase # "off" /\ mp.mode = "true" /\ mp.op = "add" /\ ~mp.threw
    /\ mp.order = <<KeyB, KeyA, KeyC, KeyBB>>
    /\ KeysOf(mp.items) = <<KeyA, KeyB, KeyBB, KeyC>>

----------------------------------------------------------------------------
(* stringifyCollection(collection, ctx, options) *)

MaxItemLen == 2

\* ctx.indentStep, as a number of spaces.
IndentStep == 2

\* The values Collection.maxFlowStringSingleLineLength is set to.
FlowMaxLengths == {5, 9}

\* An item, by what stringifyCollection reads of it and by what stringify
\* makes of it: the length of its text, whether the text has a newline,
\* whether the stringifier calls onComment (it emitted the item's comment
\* itself) and onChompKeep.  inner: the key or the value of a pair has a
\* comment.  A raw value (node = FALSE) is neither a Node nor a Pair.
PlainItem(l) ==
    [node |-> TRUE, spaceBefore |-> FALSE, commentBefore |-> <<>>, comment |-> "",
     says |-> FALSE, inner |-> FALSE, nl |-> FALSE, keep |-> FALSE, len |-> l]

CollItems ==
    UNION {
        {[PlainItem(l) EXCEPT !.spaceBefore = sb, !.commentBefore = cb,
                              !.comment = c[1], !.says = c[2]] :
            sb \in BOOLEAN, cb \in {<<>>, <<"x", "y">>},
            c \in {<<"", FALSE>>, <<"tc", FALSE>>, <<"tc", TRUE>>}}
        \cup {[PlainItem(l) EXCEPT !.inner = TRUE],
              [PlainItem(l) EXCEPT !.nl = TRUE],
              [PlainItem(l) EXCEPT !.keep = TRUE],
              [PlainItem(l) EXCEPT !.node = FALSE]}
        : l \in 1..MaxItemLen}

Collections ==
    [flow : BOOLEAN, comment : {"", "cc"},
     items : {<<>>} \cup {<<a>> : a \in CollItems}
                    \cup {<<a, b>> : a \in CollItems, b \in CollItems}]

StringifyContexts == [inFlow : BOOLEAN, indent : {0, 2}]

\* A StringifyNode { comment, str }: str is the empty string, a '#' line of a
\* commentBefore, or the text of item number item, with a comma and a
\* trailing comment where they were added.
StrNode(isComment, item, text, len) ==
    [comment |-> isComment, item |-> item, text |-> text, len |-> len,
     comma |-> FALSE, trail |-> ""]

\* addComment(str, indent, comment): str + ' #' + comment, if any.
AddComment(n, comment) ==
    IF comment = "" THEN n ELSE [n EXCEPT !.trail = comment, !.len = @ + 4]

CommentLines(cb) == [k \in DOMAIN cb |-> StrNode(TRUE, 0, <<"#", cb[k]>>, 2)]

\* The reducer that appends the item's comment whatever the stringifier did.
ReduceItemTwice(acc, item, i, n, inFlow) ==
    LET isNode == item.node
        blank == isNode /\ ~acc.chompKeep /\ item.spaceBefore
        pre == (IF blank THEN <<StrNode(TRUE, 0, <<>>, 0)>> ELSE <<>>)
                  \o (IF isNode THEN CommentLines(item.commentBefore) ELSE <<>>)
        comment0 == IF isNode THEN item.comment ELSE ""
        has1 == acc.has \/ (isNode /\ inFlow /\
                              (blank \/ item.commentBefore # <<>>
                                 \/ item.comment # "" \/ item.inner))
        has2 == has1 \/ (inFlow /\ item.nl)
        str == [StrNode(FALSE, i, <<"item">>, item.len + (IF inFlow /\ i < n THEN 1 ELSE 0))
                  EXCEPT !.comma = inFlow /\ i < n]
    IN  [nodes |-> acc.nodes \o pre \o <<AddComment(str, comment0)>>,
         chompKeep |-> item.keep /\ ~(comment0 # "" \/ inFlow),
         has |-> has2]

\* The reducer over the items (one call per item): the blank line and the
\* commentBefore lines, then the item's text with its comma and comment.
ReduceItem(acc, item, i, n, inFlow) ==
    LET isNode == item.node
        blank == isNode /\ ~acc.chompKeep /\ item.spaceBefore
        pre == (IF blank THEN <<StrNode(TRUE, 0, <<>>, 0)>> ELSE <<>>)
                  \o (IF isNode THEN CommentLines(item.commentBefore) ELSE <<>>)
        comment0 == IF isNode THEN item.comment ELSE ""
        has1 == acc.has \/ (isNode /\ inFlow /\
                              (blank \/ item.commentBefore # <<>>
                                 \/ item.comment # "" \/ item.inner))
        \* stringify(item, ctx, () => (comment = null), () => (chompKeep = true))
        comment1 == IF item.says THEN "" ELSE comment0
        has2 == has1 \/ (inFlow /\ item.nl)
        str == [StrNode(FALSE, i, <<"item">>, item.len + (IF inFlow /\ i < n THEN 1 ELSE 0))
                  EXCEPT !.comma = inFlow /\ i < n]
    IN  [nodes |-> acc.nodes \o pre \o <<AddComment(str, comment1)>>,
         chompKeep |-> item.keep /\ ~(comment1 # "" \/ inFlow),
         has |-> has2]

RECURSIVE ReduceItems(_, _, _)
ReduceItems(items, i, inFlow) ==
    IF i = 0 THEN [nodes |-> <<>>, chompKeep |-> FALSE, has |-> FALSE]
    ELSE ReduceItem(ReduceItems(items, i - 1, inFlow), items[i], i, Len(items), inFlow)

RECURSIVE SumLen(_, _)
SumLen(nodes, sum) ==
    IF nodes = <<>> THEN sum ELSE SumLen(Tail(nodes), sum + Head(nodes).len + 2)

\* A line of the output: pad spaces, a prefix ('- ' of a block sequence
\* item), then the node's text.
Line(pad, prefix, n) == [pad |-> pad, prefix |-> prefix, node |-> n]

Bracket(b) == StrNode(FALSE, 0, <<b>>, 1)

\* The one-line test that measures the line as it is written:
\* start, a space, the strings with a space between them, a space, end.
FlowFitsExact(nodes, max) == SumLen(nodes, 2) - (Len(nodes) - 1) <= max

\* strings.reduce((sum, str) => sum + str.length + 2, 2) >
\* Collection.maxFlowStringSingleLineLength, negated.
FlowFits(nodes, max) == ~(SumLen(nodes, 2) > max)

\* stringifyCollection for a sequence (blockItem puts '- ' before an item,
\* flowChars are [ and ]).  kind is the layout, lines the text line by line.
StringifyCollection(coll, ctx, max) ==
    LET inFlow == coll.flow \/ ctx.inFlow
        r == ReduceItems(coll.items, Len(coll.items), inFlow)
        nodes == r.nodes
        kind == IF nodes = <<>> THEN "empty"
                ELSE IF inFlow
                THEN (IF r.has \/ ~FlowFits(nodes, max) THEN "multi" ELSE "oneline")
                ELSE "block"
        lines ==
            CASE kind = "empty" -> <<>>
              [] kind = "multi" ->
                    <<Line(0, "", Bracket("["))>>
                        \o [k \in DOMAIN nodes |->
                              IF nodes[k].text # <<>>
                              THEN Line(IndentStep + ctx.indent, "", nodes[k])
                              ELSE Line(0, "", nodes[k])]
                        \o <<Line(ctx.indent, "", Bracket("]"))>>
              [] kind = "oneline" -> <<>>
              [] OTHER ->
                    [k \in DOMAIN nodes |->
                        IF nodes[k].text # <<>>
                        THEN Line(IF k = 1 THEN 0 ELSE ctx.indent,
                                  IF nodes[k].comment THEN "" ELSE "- ", nodes[k])
                        ELSE Line(0, "", nodes[k])]
    IN  [kind |-> kind, nodes |-> nodes, lines |-> lines,
         comment |-> coll.comment,
         onComment |-> coll.comment # "",
         onChompKeep |-> coll.comment = "" /\ r.chompKeep]

InitCollection ==
    /\ EarlierOff
    /\ \E c \in Collections, x \in StringifyContexts, m \in FlowMaxLengths :
          sc = [phase |-> "call", coll |-> c, ctx |-> x, max |-> m]
    /\ pd = Off /\ sq = Off /\ mp = Off /\ fc = Off

StringifyCollectionCall ==
    /\ sc.phase = "call"
    /\ sc' = [phase |-> "returned", coll |-> sc.coll, ctx |-> sc.ctx, max |-> sc.max,
              res |-> StringifyCollection(sc.coll, sc.ctx, sc.max)]
    /\ UNCHANGED <<Earlier, pd, sq, mp, fc>>

NextCollection == StringifyCollectionCall

SpecCollection == InitCollection /\ [][NextCollection]_vars

----------------------------------------------------------------------------
(* Properties of stringifyCollection *)

InFlowCall == sc.coll.flow \/ sc.ctx.inFlow

\* An item that keeps a flow collection from one line: a newline in its
\* text, a comment on it, on its key or on its value, a blank line before it.
BreaksLine(item) ==
    \/ item.nl
    \/ item.node /\ (item.comment # "" \/ item.inner \/ item.commentBefore # <<>>
                       \/ item.spaceBefore)

\* In the multi-line layout the opening bracket is followed by one line for
\* each string, one indent step beyond the collection's indent, and the
\* closing bracket stands on its own line at the collection's indent.
MultiLineLayout(res) ==
    /\ Len(res.lines) = Len(res.nodes) + 2
    /\ res.lines[1].node.text = <<"[">>
    /\ res.lines[Len(res.lines)] = Line(sc.ctx.indent, "", Bracket("]"))
    /\ \A k \in DOMAIN res.nodes :
          /\ res.lines[k + 1].node = res.nodes[k]
          /\ res.nodes[k].item # 0 => res.lines[k + 1].pad = IndentStep + sc.ctx.indent

\* C16: a non-empty flow collection is written on one line if and only if
\* that line is at most maxFlowStringSingleLineLength long and no item has a
\* newline, a comment or a blank line before it; otherwise every item is on
\* its own line, one indent step in, and the closing bracket on its own line.
C16_FlowOneLine ==
    (sc.phase = "returned" /\ InFlowCall /\ sc.coll.items # <<>>) =>
        /\ (sc.res.kind = "oneline") <=>
              /\ FlowFitsExact(sc.res.nodes, sc.max)
              /\ \A i \in DOMAIN sc.coll.items : ~BreaksLine(sc.coll.items[i])
        /\ sc.res.kind # "oneline" =>
              (sc.res.kind = "multi" /\ MultiLineLayout(sc.res))

\* The node of item i among the nodes of the result.
NodeOfItem(res, i) == CHOOSE k \in DOMAIN res.nodes : res.nodes[k].item = i

\* C17: the lines of an item's commentBefore are emitted as '#' lines
\* directly before the item, in their order, each on a line of its own; the
\* item's comment is appended to the item's text exactly when the item has
\* one and its stringifier did not report it through onComment.
C17_ItemComments ==
    sc.phase = "returned" =>
        \A i \in DOMAIN sc.coll.items :
            LET item == sc.coll.items[i]
                res == sc.res
                k == NodeOfItem(res, i)
                cb == IF item.node THEN item.commentBefore ELSE <<>>
            IN  /\ Cardinality({x \in DOMAIN res.nodes : res.nodes[x].item = i}) = 1
                /\ k > Len(cb)
                /\ \A j \in DOMAIN cb :
                      LET n == res.nodes[k - Len(cb) + j - 1]
                      IN  n.comment /\ n.text = <<"#", cb[j]>> /\ n.trail = ""
                /\ k - Len(cb) > 1 =>
                      LET n == res.nodes[k - Len(cb) - 1]
                      IN  n.text = <<>> \/ ~n.comment
                /\ cb # <<>> =>
                      /\ res.kind \in {"multi", "block"}
                      /\ LET off == IF res.kind = "multi" THEN 1 ELSE 0
                         IN  \A j \in DOMAIN cb :
                                /\ res.lines[off + k - Len(cb) + j - 1].node
                                      = res.nodes[k - Len(cb) + j - 1]
                                /\ res.lines[off + k - Len(cb) + j - 1].prefix = ""
                /\ res.nodes[k].trail =
                      (IF item.node /\ item.comment # "" /\ ~item.says
                       THEN item.comment ELSE "")

\* A block sequence of two items with two-line comments before them: the
\* first item's stringifier emitted the item's comment itself, the second
\* item's comment was appended.
C17_Witness ==
    /\ sc.phase = "returned" /\ sc.res.kind = "block"
    /\ Len(sc.coll.items) = 2
    /\ sc.coll.items[1].commentBefore = <<"x", "y">> /\ sc.coll.items[1].says
    /\ sc.coll.items[2].commentBefore = <<"x", "y">>
    /\ sc.coll.items[2].comment = "tc" /\ ~sc.coll.items[2].says
    /\ Len(sc.res.nodes) = 6
    /\ sc.res.nodes[3].trail = "" /\ sc.res.nodes[6].trail = "tc"

----------------------------------------------------------------------------
(* resolveFlowCollection({ composeNode, composeEmptyNode }, ctx, fc, onError) *)

MaxTokens == 3

MaxItemTokens == 4

None == [t |-> "none"]

\* '' for an anchor, a tag name or a comment that is not set.
NoName == 0

Shape(type, len) == [type |-> type, len |-> len, name |-> NoName, ok |-> TRUE]

\* The tokens of fc.items, by type and by the length of their source; a
\* scalar is one name long, or 1024 characters. An anchor or tag carries
\* its name; ok tells whether ctx.directives.tagName resolves the tag.
TokenShapes ==
    {Shape("space", 1), Shape("comment", 2), Shape("newline", 1),
     Shape("explicit-key-ind", 1), Shape("map-value-ind", 1),
     Shape("comma", 1), Shape("block-map", 1), Shape("scalar", 1),
     Shape("scalar", 1024)}
        \cup [type : {"anchor"}, len : {2}, name : {1, 2}, ok : {TRUE}]
        \cup [type : {"tag"}, len : {2}, name : {1}, ok : {TRUE}]
        \cup [type : {"tag"}, len : {2}, name : {2}, ok : BOOLEAN]

\* The tokens of the items of a collection: keys, values, their properties
\* and the separators.
ItemTokenShapes ==
    {Shape("newline", 1), Shape("explicit-key-ind", 1),
     Shape("map-value-ind", 1), Shape("comma", 1), Shape("block-map", 1),
     Shape("scalar", 1)}
        \cup [type : {"anchor", "tag"}, len : {2}, name : {1}, ok : {TRUE}]

ShapesOf(mode) == IF mode = "items" THEN ItemTokenShapes ELSE TokenShapes

TokensOf(mode) == IF mode = "items" THEN MaxItemTokens ELSE MaxTokens

\* fc.end: nothing, the closing bracket, or the bracket with a space or
\* with a space and a comment after it.
FlowEnds ==
    {<<>>} \cup {<<b>> : b \in {"}", "]"}} \cup {<<b, " ">> : b \in {"}", "]"}}
        \cup {<<b, " ", "#t">> : b \in {"}", "]"}}

FlowOffsets == {3}

OnError(st, code) == [st EXCEPT !.errors = Append(@, [code |-> code, offset |-> st.offset])]

\* getProps(): the pending properties, which are then cleared.
Props(st) ==
    [spaceBefore |-> st.spaceBefore, comment |-> st.comment,
     anchor |-> st.anchor, tagName |-> st.tagName]

ClearProps(st) ==
    [st EXCEPT !.spaceBefore = FALSE, !.comment = <<>>, !.newlines = <<>>,
               !.anchor = NoName, !.tagName = NoName]

\* composeNode(ctx, token, props, onError): a node over the token's source.
ComposeNode(tok, props) ==
    [t |-> IF tok.type = "scalar" THEN "scalar" ELSE "block",
     from |-> tok.offset, to |-> tok.offset + tok.len,
     props |-> props, comment |-> <<>>]

\* composeEmptyNode(ctx, offset, ...): an empty scalar at offset.
ComposeEmptyNode(offset, props) ==
    [t |-> "empty", from |-> offset, to |-> offset, props |-> props,
     comment |-> <<>>]

Pair(key, value) == [t |-> "pair", key |-> key, value |-> value]

\* A flow map of one pair; range is <<>> as long as no range is set.
FlowMap(key, value, range) ==
    [t |-> "map", flow |-> TRUE, items |-> <<Pair(key, value)>>,
     range |-> range, comment |-> <<>>]

RangeStart(n) == IF n.t = "map" THEN n.range[1] ELSE n.from
RangeEnd(n) == IF n.t = "map" THEN n.range[2] ELSE n.to

\* addItem that puts the entries of a sequence in as bare pairs.
AddItemPairs(st, isMap) ==
    LET st1 == IF st.value # None
               THEN (IF st.comment # <<>>
                     THEN [st EXCEPT !.value.comment = st.comment] ELSE st)
               ELSE [ClearProps(st) EXCEPT
                        !.value = ComposeEmptyNode(st.offset, Props(st))]
    IN  [st1 EXCEPT !.items = Append(@, IF st1.key # None
                                        THEN Pair(st1.key, st1.value)
                                        ELSE IF isMap THEN Pair(st1.value, None)
                                        ELSE st1.value)]

\* addItem(pos): the pending key and value become an item: a Pair in a map or
\* after a ? indicator, a single-pair flow map or the value in a sequence.
AddItem(st, isMap) ==
    LET st1 == IF st.value # None
               THEN (IF st.comment # <<>>
                     THEN [st EXCEPT !.value.comment = st.comment] ELSE st)
               ELSE [ClearProps(st) EXCEPT
                        !.value = ComposeEmptyNode(st.offset, Props(st))]
        item == IF isMap \/ st1.atExplicitKey
                THEN (IF st1.key # None THEN Pair(st1.key, st1.value)
                      ELSE Pair(st1.value, None))
                ELSE IF st1.key # None THEN FlowMap(st1.key, st1.value, <<>>)
                ELSE st1.value
    IN  [st1 EXCEPT !.items = Append(@, item)]

Pending(st) ==
    \/ st.key # None \/ st.value # None
    \/ st.anchor # NoName \/ st.tagName # NoName \/ st.atExplicitKey

\* containsNewline(token): the scalars here are on one line, a block
\* collection is not.
ContainsNewline(tok) == tok.type = "block-map"

\* The last item's node takes the comment: the value or else the key of a
\* Pair, or the item itself; without an item the error is IMPOSSIBLE.
CommentLastItem(st) ==
    IF st.items = <<>> THEN OnError(st, "IMPOSSIBLE")
    ELSE LET n == Len(st.items)
             it == st.items[n]
         IN  IF it.t = "pair"
             THEN (IF it.value # None
                   THEN [st EXCEPT !.items[n].value.comment = st.comment]
                   ELSE [st EXCEPT !.items[n].key.comment = st.comment])
             ELSE [st EXCEPT !.items[n].comment = st.comment]

OnSpace(st) == [st EXCEPT !.hasSpace = TRUE]

\* The comment token's text without its #; a later comment is joined to an
\* earlier one with the newlines between them.
CommentText(tok) == <<"c">>

\* A comment token that is never reported.
OnCommentLax(st, tok, strict) ==
    [st EXCEPT !.comment = IF st.comment = <<>> THEN CommentText(tok)
                           ELSE st.comment \o st.newlines \o CommentText(tok),
               !.atLineStart = FALSE, !.newlines = <<>>]

OnComment(st, tok, strict) ==
    LET st1 == IF strict /\ ~st.hasSpace THEN OnError(st, "COMMENT_SPACE") ELSE st
    IN  [st1 EXCEPT !.comment = IF st.comment = <<>> THEN CommentText(tok)
                                ELSE st.comment \o st.newlines \o CommentText(tok),
                    !.atLineStart = FALSE, !.newlines = <<>>]

OnNewline(st, isMap) ==
    LET st1 == IF st.atLineStart /\ st.comment = <<>>
               THEN [st EXCEPT !.spaceBefore = TRUE] ELSE st
        st2 == IF st1.atValueEnd
               THEN [(IF st1.comment # <<>>
                      THEN [CommentLastItem(st1) EXCEPT !.comment = <<>>]
                      ELSE st1) EXCEPT !.atValueEnd = FALSE]
               ELSE [st1 EXCEPT
                        !.newlines = Append(@, "nl"),
                        !.nlAfterValueInSeq =
                            @ \/ (~isMap /\ st1.key = None /\ st1.value # None)]
    IN  [st2 EXCEPT !.atLineStart = TRUE, !.hasSpace = TRUE]

OnAnchor(st, tok) ==
    [(IF st.anchor # NoName THEN OnError(st, "MULTIPLE_ANCHORS") ELSE st) EXCEPT
        !.anchor = tok.name, !.atLineStart = FALSE, !.atValueEnd = FALSE,
        !.hasSpace = FALSE]

\* ctx.directives.tagName(source, onError): the tag's name, or nothing and
\* an error for a tag that does not resolve.
TagName(tok) == IF tok.ok THEN tok.name ELSE NoName

\* A tag token whose name is taken whether it resolves or not.
OnTagAlways(st, tok) ==
    LET st1 == IF st.tagName # NoName THEN OnError(st, "MULTIPLE_TAGS") ELSE st
        st2 == IF TagName(tok) = NoName THEN OnError(st1, "TAG_RESOLVE_FAILED") ELSE st1
    IN  [st2 EXCEPT !.tagName = TagName(tok),
                    !.atLineStart = FALSE, !.atValueEnd = FALSE, !.hasSpace = FALSE]

OnTag(st, tok) ==
    LET st1 == IF st.tagName # NoName THEN OnError(st, "MULTIPLE_TAGS") ELSE st
        st2 == IF TagName(tok) = NoName THEN OnError(st1, "TAG_RESOLVE_FAILED") ELSE st1
    IN  [st2 EXCEPT !.tagName = IF TagName(tok) # NoName THEN TagName(tok) ELSE @,
                    !.atLineStart = FALSE, !.atValueEnd = FALSE, !.hasSpace = FALSE]

OnExplicitKeyInd(st) ==
    [(IF st.anchor # NoName \/ st.tagName # NoName
      THEN OnError(st, "PROP_BEFORE_SEP") ELSE st) EXCEPT
        !.atExplicitKey = TRUE, !.atLineStart = FALSE, !.atValueEnd = FALSE,
        !.hasSpace = FALSE]

\* The checks of an implicit key of a pair in a flow sequence (strict only).
ImplicitKeyChecks(st, limit) ==
    IF st.nlAfterValueInSeq THEN OnError(st, "MULTILINE_IMPLICIT_KEY")
    ELSE IF st.seqKeyToken # None
    THEN LET st1 == IF ContainsNewline(st.seqKeyToken)
                    THEN OnError(st, "MULTILINE_IMPLICIT_KEY") ELSE st
             st2 == IF st.seqKeyToken.offset < st.offset - limit
                    THEN OnError(st1, "KEY_OVER_1024_CHARS") ELSE st1
         IN  [st2 EXCEPT !.seqKeyToken = None]
    ELSE st

\* The key-length check that also reports a distance of exactly 1024.
OnMapValueIndFrom1024(st, strict) ==
    LET st1 ==
            IF st.key # None
            THEN (IF st.value # None
                  THEN [OnError(st, "BLOCK_AS_IMPLICIT_KEY") EXCEPT
                           !.key = FlowMap(st.key, st.value,
                                           <<RangeStart(st.key), RangeEnd(st.value)>>),
                           !.value = None]
                  ELSE st)
            ELSE IF st.value # None
            THEN [(IF strict THEN ImplicitKeyChecks(st, 1023) ELSE st) EXCEPT
                     !.key = st.value, !.value = None]
            ELSE [ClearProps(st) EXCEPT
                     !.key = ComposeEmptyNode(st.offset, Props(st))]
        st2 == IF st1.comment # <<>>
               THEN [st1 EXCEPT !.key.comment = st1.comment, !.comment = <<>>]
               ELSE st1
    IN  [st2 EXCEPT !.atExplicitKey = FALSE, !.atValueEnd = FALSE,
                    !.hasSpace = FALSE]

\* A : over a pending pair that keeps the old key and drops the old value.
OnMapValueIndKeepKey(st, strict) ==
    LET st1 ==
            IF st.key # None
            THEN [st EXCEPT !.value = None]
            ELSE IF st.value # None
            THEN [(IF strict THEN ImplicitKeyChecks(st, 1024) ELSE st) EXCEPT
                     !.key = st.value, !.value = None]
            ELSE [ClearProps(st) EXCEPT
                     !.key = ComposeEmptyNode(st.offset, Props(st))]
        st2 == IF st1.comment # <<>>
               THEN [st1 EXCEPT !.key.comment = st1.comment, !.comment = <<>>]
               ELSE st1
    IN  [st2 EXCEPT !.atExplicitKey = FALSE, !.atValueEnd = FALSE,
                    !.hasSpace = FALSE]

OnMapValueInd(st, strict) ==
    LET st1 ==
            IF st.key # None
            THEN (IF st.value # None
                  THEN [OnError(st, "BLOCK_AS_IMPLICIT_KEY") EXCEPT
                           !.key = FlowMap(st.key, st.value,
                                           <<RangeStart(st.key), RangeEnd(st.value)>>),
                           !.value = None]
                  ELSE st)
            ELSE IF st.value # None
            THEN [(IF strict THEN ImplicitKeyChecks(st, 1024) ELSE st) EXCEPT
                     !.key = st.value, !.value = None]
            ELSE [ClearProps(st) EXCEPT
                     !.key = ComposeEmptyNode(st.offset, Props(st))]
        st2 == IF st1.comment # <<>>
               THEN [st1 EXCEPT !.key.comment = st1.comment, !.comment = <<>>]
               ELSE st1
    IN  [st2 EXCEPT !.atExplicitKey = FALSE, !.atValueEnd = FALSE,
                    !.hasSpace = FALSE]

\* A comma that takes whatever is there for an item.
OnCommaAlways(st, isMap) ==
    [AddItem(st, isMap) EXCEPT
        !.key = None, !.value = None, !.atExplicitKey = FALSE,
        !.atValueEnd = TRUE, !.hasSpace = FALSE, !.nlAfterValueInSeq = FALSE,
        !.seqKeyToken = None]

OnComma(st, isMap) ==
    [(IF Pending(st) THEN AddItem(st, isMap) ELSE OnError(st, "UNEXPECTED_TOKEN"))
     EXCEPT
        !.key = None, !.value = None, !.atExplicitKey = FALSE,
        !.atValueEnd = TRUE, !.hasSpace = FALSE, !.nlAfterValueInSeq = FALSE,
        !.seqKeyToken = None]

\* A block collection (reported, then composed like any value) or a value.
OnValue(st, tok, isMap) ==
    LET st1 == IF tok.type = "block-map" THEN OnError(st, "BLOCK_IN_FLOW") ELSE st
        st2 == IF st1.value # None THEN OnError(st1, "MISSING_CHAR") ELSE st1
        st3 == IF ~isMap /\ st2.key = None /\ ~st2.atExplicitKey
               THEN [st2 EXCEPT !.seqKeyToken = tok] ELSE st2
        value == ComposeNode(tok, Props(st3))
    IN  [ClearProps(st3) EXCEPT
            !.value = value, !.offset = value.to, !.atLineStart = FALSE,
            !.atValueEnd = FALSE, !.hasSpace = FALSE]

\* One turn of the loop over fc.items.
FlowToken(st, tok, isMap, strict) ==
    LET st1 ==
            CASE tok.type = "space" -> OnSpace(st)
              [] tok.type = "comment" -> OnComment(st, tok, strict)
              [] tok.type = "newline" -> OnNewline(st, isMap)
              [] tok.type = "anchor" -> OnAnchor(st, tok)
              [] tok.type = "tag" -> OnTag(st, tok)
              [] tok.type = "explicit-key-ind" -> OnExplicitKeyInd(st)
              [] tok.type = "map-value-ind" -> OnMapValueInd(st, strict)
              [] tok.type = "comma" -> OnComma(st, isMap)
              [] OTHER -> OnValue(st, tok, isMap)
        isSourceToken == tok.type \notin {"block-map", "scalar"}
    IN  [st1 EXCEPT !.offset = IF isSourceToken THEN @ + tok.len ELSE @,
                    !.i = @ + 1]

\* resolveEnd(ee, offset, strict, onError): the comment among the tokens
\* after the closing bracket, and the offset behind them.
ResolveEnd(ee, offset) ==
    [comment |-> IF \E k \in DOMAIN ee : ee[k] = "#t" THEN <<"t">> ELSE <<>>,
     offset |-> offset + Len(ee) + (IF \E k \in DOMAIN ee : ee[k] = "#t" THEN 1 ELSE 0)]

\* After the loop: the pending item, the closing bracket, the tokens after
\* it, the range.
FlowFinish(st, end, isMap, fcOffset) ==
    LET st1 == IF Pending(st) THEN AddItem(st, isMap) ELSE st
        expectedEnd == IF isMap THEN "}" ELSE "]"
        st2 == IF end = <<>> \/ end[1] # expectedEnd
               THEN OnError(st1, "MISSING_CHAR") ELSE st1
        offset == st2.offset + (IF end # <<>> THEN 1 ELSE 0)
        ee == IF end = <<>> THEN <<>> ELSE Tail(end)
        res == ResolveEnd(ee, offset)
    IN  [t |-> IF isMap THEN "map" ELSE "seq", flow |-> TRUE,
         items |-> st2.items,
         comment |-> IF ee # <<>> /\ res.comment # <<>> THEN st2.comment ELSE <<>>,
         range |-> <<fcOffset, IF ee # <<>> THEN res.offset ELSE offset>>,
         errors |-> st2.errors]

NewFlowState(fcOffset) ==
    [items |-> <<>>, key |-> None, value |-> None, spaceBefore |-> FALSE,
     comment |-> <<>>, hasSpace |-> FALSE, newlines |-> <<>>, anchor |-> NoName,
     tagName |-> NoName, offset |-> fcOffset + 1, atLineStart |-> FALSE,
     atExplicitKey |-> FALSE, atValueEnd |-> FALSE, nlAfterValueInSeq |-> FALSE,
     seqKeyToken |-> None, errors |-> <<>>, i |-> 0]

\* A call over the tokens of one of the two alphabets; toks is the types of
\* the tokens read so far.
FlowCalls(mode) ==
    [phase : {"loop"}, mode : {mode}, isMap : BOOLEAN, strict : BOOLEAN,
     offset : FlowOffsets, toks : {<<>>}, tok : {None}]

InitFlowOf(mode) ==
    /\ EarlierOff
    /\ \E c \in FlowCalls(mode) :
          fc = [phase |-> c.phase, mode |-> c.mode, isMap |-> c.isMap,
                strict |-> c.strict, offset |-> c.offset, toks |-> c.toks,
                tok |-> c.tok, st |-> NewFlowState(c.offset),
                before |-> NewFlowState(c.offset)]
    /\ pd = Off /\ sq = Off /\ mp = Off /\ sc = Off

InitFlow == InitFlowOf("tokens")

InitFlowItems == InitFlowOf("items")

\* A comment runs to the end of its line: the token after it is a newline.
EndsLine(shape) == Len(fc.toks) > 0 /\ fc.toks[Len(fc.toks)] = "comment"
                      => shape.type = "newline"

\* The loop takes the next token of fc.items.
FlowNextToken ==
    /\ fc.phase = "loop" /\ fc.st.i < TokensOf(fc.mode)
    /\ \E shape \in ShapesOf(fc.mode) :
          /\ EndsLine(shape)
          /\ LET tok == [type |-> shape.type, len |-> shape.len,
                         name |-> shape.name, ok |-> shape.ok,
                         offset |-> fc.st.offset]
             IN  fc' = [fc EXCEPT !.st = FlowToken(fc.st, tok, fc.isMap, fc.strict),
                                  !.tok = tok, !.before = fc.st,
                                  !.toks = Append(@, tok.type)]
    /\ UNCHANGED <<Earlier, pd, sq, mp, sc>>

\* fc.items is at its end; after a comment only the end of the input follows.
FlowEnd ==
    /\ fc.phase = "loop"
    /\ \E end \in FlowEnds :
          /\ (Len(fc.toks) > 0 /\ fc.toks[Len(fc.toks)] = "comment") => end = <<>>
          /\ fc' = [phase |-> "returned", mode |-> fc.mode, isMap |-> fc.isMap,
                    strict |-> fc.strict, offset |-> fc.offset, toks |-> fc.toks,
                    tok |-> fc.tok, st |-> fc.st, before |-> fc.before,
                    end |-> end,
                    coll |-> FlowFinish(fc.st, end, fc.isMap, fc.offset)]
    /\ UNCHANGED <<Earlier, pd, sq, mp, sc>>

NextFlow == FlowNextToken \/ FlowEnd

SpecFlow == InitFlow /\ [][NextFlow]_vars

SpecFlowItems == InitFlowItems /\ [][NextFlow]_vars

----------------------------------------------------------------------------
(* Properties of resolveFlowCollection *)

\* The codes of the errors the last turn of the loop reported.
NewErrors ==
    [k \in 1..(Len(fc.st.errors) - Len(fc.before.errors)) |->
        fc.st.errors[Len(fc.before.errors) + k].code]

Reported(code) == \E k \in DOMAIN NewErrors : NewErrors[k] = code

\* The last turn of the loop, over a token of one of the types.
Took(types) == fc.phase = "loop" /\ fc.tok # None /\ fc.tok.type \in types

C19_BestEffort ==
    /\ Took({"comma"}) =>
          IF Pending(fc.before)
          THEN NewErrors = <<>> /\ Len(fc.st.items) = Len(fc.before.items) + 1
          ELSE NewErrors = <<"UNEXPECTED_TOKEN">> /\ fc.st.items = fc.before.items
    /\ Took({"scalar", "block-map"}) =>
          /\ Reported("MISSING_CHAR") <=> (fc.before.value # None)
          /\ Reported("BLOCK_IN_FLOW") <=> (fc.tok.type = "block-map")
          /\ fc.st.value.from = fc.tok.offset
          /\ fc.st.value.t = (IF fc.tok.type = "block-map" THEN "block" ELSE "scalar")
    /\ fc.phase = "returned" =>
          LET bad == fc.end = <<>> \/ fc.end[1] # (IF fc.isMap THEN "}" ELSE "]")
          IN  /\ fc.coll.flow
              /\ fc.coll.range[1] = fc.offset
              /\ fc.coll.range[2] >= fc.st.offset
              /\ fc.coll.errors =
                    fc.st.errors \o (IF bad THEN <<[code |-> "MISSING_CHAR",
                                                     offset |-> fc.st.offset]>>
                                     ELSE <<>>)
              /\ Len(fc.coll.items) >= Len(fc.st.items)

\* A lone comma was reported and added nothing.
C19_Witness ==
    /\ Took({"comma"}) /\ ~Pending(fc.before)
    /\ fc.before.items # <<>> /\ fc.st.items = fc.before.items
    /\ Reported("UNEXPECTED_TOKEN")

\* The : indicator was read while an implicit key of a flow sequence was
\* pending: the value composed last, with no ? before it.
AtImplicitKey ==
    /\ Took({"map-value-ind"}) /\ ~fc.isMap
    /\ fc.before.key = None /\ fc.before.value # None
    /\ fc.before.seqKeyToken # None
    /\ fc.before.seqKeyToken.offset = fc.before.value.from

\* How far the : indicator lies behind the start of the key.
KeyDistance == fc.tok.offset - fc.before.value.from

LastOf(types, upto) ==
    IF \E j \in 1..upto : fc.toks[j] \in types
    THEN CHOOSE j \in 1..upto :
            /\ fc.toks[j] \in types
            /\ \A k \in (j + 1)..upto : fc.toks[k] \notin types
    ELSE 0

\* The token before the one read last, "" at the start.
PrevType == IF Len(fc.toks) > 1 THEN fc.toks[Len(fc.toks) - 1] ELSE ""

\* In strict mode, the : was read in a flow sequence over a pending value
\* and no pending key.
OverValue ==
    /\ Took({"map-value-ind"}) /\ ~fc.isMap /\ fc.strict
    /\ fc.before.key = None /\ fc.before.value # None

\* The token of the value that the : turns into a key.
KeyAt == LastOf({"scalar", "block-map"}, Len(fc.toks) - 1)

\* A ? indicator introduces the key: it lies before the key's token with no
\* comma and no : between them.
ExplicitKey ==
    \E j \in 1..(KeyAt - 1) :
        /\ fc.toks[j] = "explicit-key-ind"
        /\ \A k \in (j + 1)..(KeyAt - 1) : fc.toks[k] \notin {"comma", "map-value-ind"}

NewlineBetween ==
    \E j \in (KeyAt + 1)..(Len(fc.toks) - 1) : fc.toks[j] = "newline"

\* C21: in strict mode, for a value of a flow sequence that a : turns into a
\* key, MULTILINE_IMPLICIT_KEY is reported if and only if the key is
\* implicit and its token contains a newline or a newline token lies between
\* it and the :; it is never reported for a key introduced by ?.
C21_MultilineKey ==
    OverValue =>
        (Reported("MULTILINE_IMPLICIT_KEY") <=>
            (~ExplicitKey /\ (fc.toks[KeyAt] = "block-map" \/ NewlineBetween)))

\* C22: a : that arrives while a key and a value are pending reports
\* BLOCK_AS_IMPLICIT_KEY and makes the pair a single-pair flow map, the key
\* of the next pair, ranging from the old key's start to the old value's
\* end; a : over a key only or a value only does not report the error.
C22_PairAsKey ==
    Took({"map-value-ind"}) =>
        /\ Reported("BLOCK_AS_IMPLICIT_KEY") <=>
              (fc.before.key # None /\ fc.before.value # None)
        /\ (fc.before.key # None /\ fc.before.value # None) =>
              /\ fc.st.key.t = "map" /\ fc.st.key.flow
              /\ fc.st.key.items = <<Pair(fc.before.key, fc.before.value)>>
              /\ fc.st.key.range =
                    <<RangeStart(fc.before.key), RangeEnd(fc.before.value)>>
              /\ fc.st.value = None
              /\ fc.st.items = fc.before.items
        /\ (fc.before.key # None /\ fc.before.value = None) =>
              fc.st.key = fc.before.key \/ fc.before.comment # <<>>

\* [ a: b: was read: the pair a: b is the key now.
C22_Witness ==
    /\ Took({"map-value-ind"}) /\ ~fc.isMap
    /\ fc.before.key # None /\ fc.before.key.t = "scalar"
    /\ fc.before.value # None /\ fc.before.value.t = "scalar"
    /\ Reported("BLOCK_AS_IMPLICIT_KEY")
    /\ fc.st.key.t = "map" /\ fc.st.key.range = <<4, 7>>

\* Only a second anchor or tag is reported as such, by the token that is the
\* second, and the node composed next takes the pending properties.
DuplicatesOnly ==
    /\ Took({"anchor"}) =>
          (Reported("MULTIPLE_ANCHORS") <=> fc.before.anchor # NoName)
    /\ Took({"tag"}) =>
          (Reported("MULTIPLE_TAGS") <=> fc.before.tagName # NoName)
    /\ (fc.phase = "loop" /\ fc.tok # None) =>
          /\ Reported("MULTIPLE_ANCHORS") => fc.tok.type = "anchor"
          /\ Reported("MULTIPLE_TAGS") => fc.tok.type = "tag"
    /\ Took({"scalar", "block-map"}) =>
          /\ fc.st.value.props.anchor = fc.before.anchor
          /\ fc.st.value.props.tagName = fc.before.tagName

\* C23 as stated: MULTIPLE_ANCHORS (MULTIPLE_TAGS) is reported exactly when
\* an anchor (tag) arrives while another is pending, and the later token's
\* value is then the one that is pending.
C23_AsStated ==
    /\ DuplicatesOnly
    /\ (Took({"anchor"}) /\ fc.before.anchor # NoName) => fc.st.anchor = fc.tok.name
    /\ (Took({"tag"}) /\ fc.before.tagName # NoName) => fc.st.tagName = fc.tok.name

\* C23, amended: as stated for anchors; of two tags the later one is applied
\* if it resolves, and the earlier one stays if the later one does not
\* resolve (TAG_RESOLVE_FAILED).
C23_Duplicates ==
    /\ DuplicatesOnly
    /\ Took({"anchor"}) => fc.st.anchor = fc.tok.name
    /\ Took({"tag"}) =>
          /\ fc.st.tagName = (IF fc.tok.ok THEN fc.tok.name ELSE fc.before.tagName)
          /\ Reported("TAG_RESOLVE_FAILED") <=> ~fc.tok.ok

\* A second tag that does not resolve: reported, the first tag stays.
C23_Witness ==
    /\ Took({"tag"}) /\ fc.before.tagName = 1 /\ ~fc.tok.ok
    /\ Reported("MULTIPLE_TAGS") /\ fc.st.tagName = 1

\* C24: in strict mode a comment is reported as COMMENT_SPACE if and only
\* if the token before it is neither a space nor a newline; without strict
\* it is never reported; the comment's text is recorded either way.
C24_CommentSpace ==
    Took({"comment"}) =>
        /\ Reported("COMMENT_SPACE") <=>
              (fc.strict /\ PrevType \notin {"space", "newline"})
        /\ fc.st.comment =
              (IF fc.before.comment = <<>> THEN <<"c">>
               ELSE fc.before.comment \o fc.before.newlines \o <<"c">>)
        /\ fc.st.errors = fc.before.errors \/ NewErrors = <<"COMMENT_SPACE">>

\* A comment right behind a value in strict mode: reported and recorded.
C24_Witness ==
    /\ Took({"comment"}) /\ fc.strict /\ PrevType = "scalar"
    /\ Reported("COMMENT_SPACE") /\ fc.st.comment = <<"c">>

\* C28 as stated: an anchor or tag that is pending at a comma is consumed
\* by the item the comma closes: none is pending after a comma, and the
\* node composed next after a comma has none.
C28_PropsStayInItem ==
    /\ Took({"comma"}) => (fc.st.anchor = NoName /\ fc.st.tagName = NoName)
    /\ (Took({"scalar", "block-map"}) /\ PrevType = "comma") =>
          /\ fc.st.value.props.anchor = NoName
          /\ fc.st.value.props.tagName = NoName

RECURSIVE FlowNodes(_)
\* The composed nodes in a node, a pair or a single-pair map, each by its
\* kind and the offset where it starts.
FlowNodes(n) ==
    CASE n.t = "none" -> {}
      [] n.t = "pair" -> FlowNodes(n.key) \cup FlowNodes(n.value)
      [] n.t = "map" -> FlowNodes(n.items[1])
      [] OTHER -> {<<n.t, n.from>>}

\* The composed nodes that the pending key and value and the items hold.
Held(st) ==
    FlowNodes(st.key) \cup FlowNodes(st.value)
        \cup UNION {FlowNodes(st.items[k]) : k \in DOMAIN st.items}

\* C29 as stated: a node, once composed, stays: in the items, or as the
\* pending key or value, and at the end in the items of the collection.
C29_NothingDropped ==
    /\ (fc.phase = "loop" /\ fc.tok # None) => Held(fc.before) \subseteq Held(fc.st)
    /\ fc.phase = "returned" =>
          Held(fc.st) \subseteq UNION {FlowNodes(fc.coll.items[k]) :
                                          k \in DOMAIN fc.coll.items}

\* C30 as stated: a comment after the closing bracket is the comment of the
\* collection, and a comment within the brackets is never part of it.
C30_TrailingComment ==
    fc.phase = "returned" =>
        /\ (\E k \in DOMAIN fc.end : fc.end[k] = "#t") => fc.coll.comment = <<"t">>
        /\ \A k \in DOMAIN fc.coll.comment : fc.coll.comment[k] # "c"

----------------------------------------------------------------------------
(* Alias: the tag property *)

MaxAliases == 2

\* The values a caller may assign to the tag of a node.
TagValues == {Undefined, Null, [t |-> "str", value |-> "!!str"]}

\* new Alias(source): the tag is an accessor with a setter and no getter, so
\* it reads as undefined.
NewAlias(source) == [source |-> source, tag |-> Undefined]

\* A tag that is an ordinary property.
SetTagStores(alias, v) == [alias |-> [alias EXCEPT !.tag = v], throw |-> ""]

\* alias.tag = v: the setter that the constructor defined.
SetTag(alias, v) == [alias |-> alias, throw |-> "Alias nodes cannot have tags"]

\* alias.source = source: an ordinary property.
SetSource(alias, source) == [alias |-> [alias EXCEPT !.source = source], throw |-> ""]

InitAliasTag ==
    /\ AliasOff
    /\ ts = [phase |-> "tags", aliases |-> <<>>,
             last |-> [op |-> "none", at |-> 0, value |-> Undefined, throw |-> "", before |-> <<>>]]
    /\ cn = Off /\ sf = Off /\ pr = Off
    /\ pd = Off /\ sq = Off /\ mp = Off /\ sc = Off /\ fc = Off

Construct ==
    /\ ts.phase = "tags" /\ Len(ts.aliases) < MaxAliases
    /\ \E source \in SourceLabels :
          ts' = [ts EXCEPT !.aliases = Append(@, NewAlias(source)),
                           !.last = [op |-> "new", at |-> Len(ts.aliases) + 1, value |-> Undefined,
                                     throw |-> "", before |-> ts.aliases]]
    /\ UNCHANGED <<doc, mac, pos, anchors, status, last, cn, sf, pr, pd, sq, mp, sc, fc>>

AssignTag ==
    /\ ts.phase = "tags"
    /\ \E i \in DOMAIN ts.aliases, v \in TagValues :
          LET r == SetTag(ts.aliases[i], v)
          IN  ts' = [ts EXCEPT !.aliases[i] = r.alias,
                               !.last = [op |-> "tag", at |-> i, value |-> v, throw |-> r.throw,
                                         before |-> ts.aliases]]
    /\ UNCHANGED <<doc, mac, pos, anchors, status, last, cn, sf, pr, pd, sq, mp, sc, fc>>

AssignSource ==
    /\ ts.phase = "tags"
    /\ \E i \in DOMAIN ts.aliases, source \in SourceLabels :
          LET r == SetSource(ts.aliases[i], source)
          IN  ts' = [ts EXCEPT !.aliases[i] = r.alias,
                               !.last = [op |-> "source", at |-> i, value |-> Undefined, throw |-> r.throw,
                                         before |-> ts.aliases]]
    /\ UNCHANGED <<doc, mac, pos, anchors, status, last, cn, sf, pr, pd, sq, mp, sc, fc>>

NextAliasTag == Construct \/ AssignTag \/ AssignSource

SpecAliasTag == InitAliasTag /\ [][NextAliasTag]_vars

\* C25: no alias carries a tag: an assignment to the tag throws 'Alias nodes
\* cannot have tags' and leaves every alias, its source included, as it was.
C25_NoTag ==
    ts.phase = "tags" =>
        /\ \A i \in DOMAIN ts.aliases : ts.aliases[i].tag = Undefined
        /\ ts.last.op = "tag" =>
              /\ ts.last.throw = "Alias nodes cannot have tags"
              /\ ts.aliases = ts.last.before

\* A tag was assigned to one of two aliases whose sources had been changed.
C25_Witness ==
    /\ ts.phase = "tags" /\ ts.last.op = "tag" /\ ts.last.throw # ""
    /\ Len(ts.aliases) = 2 /\ ts.aliases[1].source # ts.aliases[2].source

----------------------------------------------------------------------------
(* stringifyCollection: collections within collections *)

MaxDepth == 3

\* An item that is no collection.
Leaf == [t |-> "scalar"]

RECURSIVE NestedCollections(_)
\* The collections that hold collections down to depth d: each has its own
\* flow flag and no item, one item, or a scalar and one more item.
NestedCollections(d) ==
    LET kids == IF d = 0 THEN {Leaf} ELSE {Leaf} \cup NestedCollections(d - 1)
    IN  [t : {"coll"}, flow : BOOLEAN,
         items : {<<>>} \cup {<<k>> : k \in kids} \cup {<<Leaf, k>> : k \in kids}]

RECURSIVE RenderOwnFlag(_, _)
\* A rendering that looks at the collection's own flag only.
RenderOwnFlag(node, ctxInFlow) ==
    IF node.t = "scalar" THEN [t |-> "scalar"]
    ELSE [t |-> "coll", flow |-> node.flow,
          kind |-> IF node.items = <<>> THEN "empty"
                   ELSE IF node.flow THEN "flow" ELSE "block",
          items |-> [k \in DOMAIN node.items |->
                        RenderOwnFlag(node.items[k], node.flow)]]

RECURSIVE RenderNested(_, _)
\* stringify(item, ctx) of a collection, which is stringifyCollection(item,
\* ctx, ...): inFlow is flow || ctx.inFlow, the items are stringified with
\* ctx.inFlow = inFlow, and the text is start + end without items, the flow
\* layout if inFlow and the block layout otherwise.  The flag is read only.
RenderNested(node, ctxInFlow) ==
    IF node.t = "scalar" THEN [t |-> "scalar"]
    ELSE LET inFlow == node.flow \/ ctxInFlow
         IN  [t |-> "coll", flow |-> node.flow,
              kind |-> IF node.items = <<>> THEN "empty"
                       ELSE IF inFlow THEN "flow" ELSE "block",
              items |-> [k \in DOMAIN node.items |->
                            RenderNested(node.items[k], inFlow)]]

InitNested ==
    /\ EarlierOff
    /\ \E c \in NestedCollections(MaxDepth), inFlow \in BOOLEAN :
          sc = [phase |-> "nest", coll |-> c, ctx |-> [inFlow |-> inFlow]]
    /\ pd = Off /\ sq = Off /\ mp = Off /\ fc = Off

StringifyNested ==
    /\ sc.phase = "nest"
    /\ sc' = [phase |-> "nested", coll |-> sc.coll, ctx |-> sc.ctx,
              res |-> RenderNested(sc.coll, sc.ctx.inFlow)]
    /\ UNCHANGED <<Earlier, pd, sq, mp, fc>>

NextNested == StringifyNested

SpecNested == InitNested /\ [][NextNested]_vars

RECURSIVE AllFlow(_)
\* No collection of the rendering is in the block layout.
AllFlow(r) ==
    r.t = "scalar" \/
        (r.kind \in {"flow", "empty"} /\ \A k \in DOMAIN r.items : AllFlow(r.items[k]))

RECURSIVE NoBlockInFlow(_)
\* Below every collection in the flow layout, no collection is in the block
\* layout.
NoBlockInFlow(r) ==
    r.t = "scalar" \/
        /\ r.kind = "flow" => AllFlow(r)
        /\ \A k \in DOMAIN r.items : NoBlockInFlow(r.items[k])

RECURSIVE SameFlags(_, _)
\* The rendering r is of the collection c and shows c's flow flags.
SameFlags(r, c) ==
    /\ r.t = c.t
    /\ r.t = "coll" =>
          /\ r.flow = c.flow /\ Len(r.items) = Len(c.items)
          /\ \A k \in DOMAIN c.items : SameFlags(r.items[k], c.items[k])

\* C26: below a collection that is rendered in flow style, by its own flag
\* or by the context, every collection is rendered in flow style whatever
\* its own flag, and rendering changes no flow flag.
C26_FlowNesting ==
    sc.phase = "nested" =>
        /\ (sc.coll.flow \/ sc.ctx.inFlow) => AllFlow(sc.res)
        /\ NoBlockInFlow(sc.res)
        /\ SameFlags(sc.res, sc.coll)

\* A block collection holds a flow collection, which holds a collection
\* whose own flag says block and which is rendered in flow style.
C26_Witness ==
    /\ sc.phase = "nested" /\ ~sc.ctx.inFlow /\ sc.res.kind = "block"
    /\ \E k \in DOMAIN sc.res.items :
          /\ sc.res.items[k].t = "coll" /\ sc.res.items[k].flow
          /\ \E j \in DOMAIN sc.res.items[k].items :
                LET g == sc.res.items[k].items[j]
                IN  g.t = "coll" /\ ~g.flow /\ g.kind = "flow"

----------------------------------------------------------------------------
(* YAMLSeq: has, get and delete after add, set and delete *)

\* An item is stored at the index of the key in the items before the call:
\* add or set put it there; set beyond the end leaves the indices before
\* its own without an item.
StoredAt(key) ==
    /\ ValidIndex(key) /\ KeyNumber(key).v < Len(sq.before)
    /\ sq.before[KeyNumber(key).v + 1] # Undefined

\* C27 as stated: has(k) is true exactly for the indices at which an item
\* is stored; get(k, true) returns the item stored there; delete(k) of a
\* stored item removes that item only, keeps the order of the others and
\* returns true.
C27_HasStored ==
    /\ sq.op = "has" => (sq.ret <=> StoredAt(sq.key))
    /\ (sq.op = "get" /\ sq.keepScalar /\ StoredAt(sq.key)) =>
          sq.ret = sq.before[KeyNumber(sq.key).v + 1]
    /\ (sq.op = "delete" /\ StoredAt(sq.key)) =>
          /\ sq.ret = TRUE
          /\ sq.items = SubSeq(sq.before, 1, KeyNumber(sq.key).v)
                           \o SubSeq(sq.before, KeyNumber(sq.key).v + 2, Len(sq.before))

====
